---- MODULE Spec2Model ----
(***************************************************************************)
(* prompt-fmt: the project-context detector (detectProjectContext), the    *)
(* state file (loadProjectContext / saveProjectContext) and the init       *)
(* command (compareContexts, initCommand).                                 *)
(*                                                                         *)
(* A ProjectContext is a JavaScript object whose keys are all optional: it *)
(* is modelled as a function whose domain is the set of keys that are set, *)
(* so that {} is the function with the empty domain.                       *)
(***************************************************************************)
EXTENDS Integers, Sequences, FiniteSets, TLC

VARIABLES
    fs,               \* the working directory (process.cwd()) as the detector reads it
    stateFile,        \* the project-local state file .prompt-formatter.json
    pc,               \* where the running command is
    force,            \* options.force of the running init command
    existingContext,  \* initCommand: const existingContext
    detectedContext,  \* initCommand: const detectedContext / const context
    changes,          \* initCommand: const changes
    asked,            \* how many times confirm() was called in this run
    saved,            \* how many times saveProjectContext() was called in this run
    output,           \* the messages of this run, in order
    before,           \* the state file when the run started
    edited,           \* the working directory was edited since the last run or detection
    persisted,        \* the last init run that ended wrote the state file
    fpc,              \* where the running format command is
    provider,         \* formatCommand: let provider
    apiKey,           \* formatCommand: let apiKey
    config,           \* the stored configuration (conf): provider and apiKeys
    envKeys,          \* the API keys that the environment variables hold
    calls,            \* the <<provider, apiKey>> of each formatPrompt call of this run
    thrown,           \* what the last formatPrompt call threw
    fout              \* the messages of the format command, in order

\* the variables of the init workflow and of the detector
initVars == <<fs, stateFile, pc, force, existingContext, detectedContext, changes,
              asked, saved, output, before, edited, persisted>>

\* the variables of the format command
formatVars == <<fpc, provider, apiKey, config, envKeys, calls, thrown, fout>>

vars == <<initVars, formatVars>>

(***************************************************************************)
(* Bounds of the model.                                                    *)
(***************************************************************************)
\* longest dependencies list of a profile handed to compareContexts
MaxDeps == 2
\* most ecosystems whose manifests a generated working directory combines
MaxEco == 2
\* most entries (dependencies and devDependencies together) of a generated package.json
MaxPkg == 2
\* most candidate paths that exist in a generated working directory
MaxPaths == 2
\* most dependencies that a generated manifest declares
MaxListed == 10
\* most words that a generated manifest text holds
MaxWords == 2
\* most formatPrompt calls of one format command
MaxCalls == 3

(***************************************************************************)
(* JavaScript values.                                                      *)
(***************************************************************************)
\* obj[key] of a key that is not set
Undefined == "undefined"

\* !!v for a string or undefined
Truthy(v) == v # Undefined /\ v # ""

\* {}
EmptyContext == <<>>

\* context[key]
Get(context, key) == IF key \in DOMAIN context THEN context[key] ELSE Undefined

\* context[key] = value
Put(context, key, value) ==
    [k \in (DOMAIN context) \cup {key} |-> IF k = key THEN value ELSE context[k]]

\* the array itself, the slice left out
SliceAll(s, n) == s

\* Array.prototype.slice(0, n)
Slice(s, n) == SubSeq(s, 1, IF Len(s) < n THEN Len(s) ELSE n)

\* Array.prototype.filter
Filter(s, Keep(_)) == SelectSeq(s, Keep)

Range(s) == {s[i] : i \in DOMAIN s}

\* [...new Set(s)]: the members of s in the order of their first occurrence
RECURSIVE SetOrder(_)
SetOrder(s) ==
    IF s = <<>> THEN <<>>
    ELSE LET init == SetOrder(SubSeq(s, 1, Len(s) - 1))
             last == s[Len(s)]
         IN  IF last \in Range(init) THEN init ELSE Append(init, last)

\* an object with string values, as the ordered list of its <<key, value>> members
Keys(obj) == [i \in DOMAIN obj |-> obj[i][1]]

\* obj[key] on such an object
Lookup(obj, key) ==
    IF \E i \in DOMAIN obj : obj[i][1] = key
    THEN obj[CHOOSE i \in DOMAIN obj : obj[i][1] = key][2]
    ELSE Undefined

(***************************************************************************)
(* compareContexts                                                         *)
(***************************************************************************)
simpleFields == <<"language", "framework", "testRunner">>

\* the first loop without its removed branch
SimpleChangeNoRemoved(field, oldVal, newVal) ==
    IF oldVal = newVal THEN <<>>
    ELSE IF ~Truthy(oldVal) /\ Truthy(newVal)
         THEN <<[field |-> field, type |-> "added", newValue |-> newVal]>>
    ELSE IF Truthy(oldVal) /\ Truthy(newVal)
         THEN <<[field |-> field, type |-> "changed",
                 oldValue |-> oldVal, newValue |-> newVal]>>
    ELSE <<>>

\* the first loop without its test oldVal !== newVal
SimpleChangeNoGuard(field, oldVal, newVal) ==
    IF ~Truthy(oldVal) /\ Truthy(newVal)
    THEN <<[field |-> field, type |-> "added", newValue |-> newVal]>>
    ELSE IF Truthy(oldVal) /\ ~Truthy(newVal)
    THEN <<[field |-> field, type |-> "removed", oldValue |-> oldVal]>>
    ELSE IF Truthy(oldVal) /\ Truthy(newVal)
    THEN <<[field |-> field, type |-> "changed", oldValue |-> oldVal, newValue |-> newVal]>>
    ELSE <<>>

\* the three-way comparison of one simple field (the body of the first loop)
SimpleChange(field, oldVal, newVal) ==
    IF oldVal = newVal THEN <<>>
    ELSE IF ~Truthy(oldVal) /\ Truthy(newVal)
         THEN <<[field |-> field, type |-> "added", newValue |-> newVal]>>
    ELSE IF Truthy(oldVal) /\ ~Truthy(newVal)
         THEN <<[field |-> field, type |-> "removed", oldValue |-> oldVal]>>
    ELSE IF Truthy(oldVal) /\ Truthy(newVal)
         THEN <<[field |-> field, type |-> "changed",
                 oldValue |-> oldVal, newValue |-> newVal]>>
    ELSE <<>>

\* the three-way comparison of one directory key (the body of the second loop)
DirChange(key, oldVal, newVal) ==
    IF oldVal = newVal THEN <<>>
    ELSE LET fieldName == "directories." \o key
         IN  IF ~Truthy(oldVal) /\ Truthy(newVal)
             THEN <<[field |-> fieldName, type |-> "added", newValue |-> newVal \o "/"]>>
             ELSE IF Truthy(oldVal) /\ ~Truthy(newVal)
             THEN <<[field |-> fieldName, type |-> "removed", oldValue |-> oldVal \o "/"]>>
             ELSE IF Truthy(oldVal) /\ Truthy(newVal)
             THEN <<[field |-> fieldName, type |-> "changed",
                     oldValue |-> oldVal \o "/", newValue |-> newVal \o "/"]>>
             ELSE <<>>

\* the concatenation of f(s[1]), f(s[2]), ...
FlatMap(s, f(_)) ==
    LET F[i \in 0..Len(s)] == IF i = 0 THEN <<>> ELSE F[i - 1] \o f(s[i])
    IN  F[Len(s)]

\* existing.directories || {}
DirsOf(context) ==
    IF "directories" \in DOMAIN context THEN context["directories"] ELSE <<>>

\* existing.dependencies || []
DepsOf(context) ==
    IF "dependencies" \in DOMAIN context THEN context["dependencies"] ELSE <<>>

\* the second loop over the keys of the detected directories only
DirChangesDetectedKeys(existing, detected) ==
    LET oldDirs == DirsOf(existing)
        newDirs == DirsOf(detected)
        one(key) == DirChange(key, Lookup(oldDirs, key), Lookup(newDirs, key))
    IN  FlatMap(Keys(newDirs), one)

\* the third loop over the two arrays, compared position by position
DepChangesByPosition(existing, detected) ==
    LET oldDeps == DepsOf(existing)
        newDeps == DepsOf(detected)
        add(i) == IF i > Len(oldDeps) \/ oldDeps[i] # newDeps[i]
                  THEN <<[field |-> "dependency", type |-> "added", newValue |-> newDeps[i]]>>
                  ELSE <<>>
        del(i) == IF i > Len(newDeps) \/ newDeps[i] # oldDeps[i]
                  THEN <<[field |-> "dependency", type |-> "removed", oldValue |-> oldDeps[i]]>>
                  ELSE <<>>
    IN  FlatMap([i \in DOMAIN newDeps |-> i], add) \o FlatMap([i \in DOMAIN oldDeps |-> i], del)

SimpleChanges(existing, detected) ==
    LET one(field) == SimpleChange(field, Get(existing, field), Get(detected, field))
    IN  FlatMap(simpleFields, one)

DirChanges(existing, detected) ==
    LET oldDirs == DirsOf(existing)
        newDirs == DirsOf(detected)
        allDirKeys == SetOrder(Keys(oldDirs) \o Keys(newDirs))
        one(key) == DirChange(key, Lookup(oldDirs, key), Lookup(newDirs, key))
    IN  FlatMap(allDirKeys, one)

DepChanges(existing, detected) ==
    LET oldDeps == SetOrder(DepsOf(existing))
        newDeps == SetOrder(DepsOf(detected))
        add(dep) == IF dep \notin Range(oldDeps)
                    THEN <<[field |-> "dependency", type |-> "added", newValue |-> dep]>>
                    ELSE <<>>
        del(dep) == IF dep \notin Range(newDeps)
                    THEN <<[field |-> "dependency", type |-> "removed", oldValue |-> dep]>>
                    ELSE <<>>
    IN  FlatMap(newDeps, add) \o FlatMap(oldDeps, del)

\* the three loops with the dependencies compared first
compareContextsDepsFirst(existing, detected) ==
    DepChanges(existing, detected)
        \o SimpleChanges(existing, detected)
        \o DirChanges(existing, detected)

compareContexts(existing, detected) ==
    SimpleChanges(existing, detected)
        \o DirChanges(existing, detected)
        \o DepChanges(existing, detected)

(***************************************************************************)
(* The working directory.  A manifest read as text is a record: kind is    *)
(* "absent", "file" or "unreadable" (the name exists but readFileSync      *)
(* fails, e.g. it is a directory); text is the set of words written in it; *)
(* list is, for Package.swift and Podfile, the declared packages in order. *)
(***************************************************************************)
NoFile == [kind |-> "absent", text |-> {}, list |-> <<>>]
Unreadable == [kind |-> "unreadable", text |-> {}, list |-> <<>>]
TextFile(words) == [kind |-> "file", text |-> words, list |-> <<>>]
ListFile(words, names) == [kind |-> "file", text |-> words, list |-> names]

\* fs.existsSync(path)
existsSync(file) == file.kind # "absent"

\* String.prototype.toLowerCase, on the words the model writes into files
toLowerCase(word) ==
    CASE word = "SwiftUI" -> "swiftui"
      [] word = "Vapor" -> "vapor"
      [] word = "RxSwift" -> "rxswift"
      [] word = "Alamofire" -> "alamofire"
      [] word = "Spring-Boot" -> "spring-boot"
      [] word = "Microsoft.AspNetCore" -> "microsoft.aspnetcore"
      [] word = "NUnit" -> "nunit"
      [] word = "Flask" -> "flask"
      [] OTHER -> word

LowerText(text) == {toLowerCase(w) : w \in text}

\* <<k, w>>: k is a proper substring of the word w
ProperSubstrings ==
    { <<"spring", "spring-boot">>, <<"spring", "spring-boot-starter-web">>,
      <<"spring-boot", "spring-boot-starter-web">>,
      <<"kotlin", "org.jetbrains.kotlin.jvm">>,
      <<"com.android", "com.android.application">>,
      <<"play", "com.typesafe.play">>, <<"qt", "qt5">>,
      <<"maui", "microsoft.maui">>, <<"rails", "rspec-rails">>,
      <<"rspec", "rspec-rails">>, <<"pytest", "pytest-cov">>,
      <<"flutter:", "flutter: sdk">> }

\* String.prototype.includes(keyword) on a file's text
Includes(text, keyword) ==
    \E w \in text : w = keyword \/ <<keyword, w>> \in ProperSubstrings

\* the working directory with nothing in it that the detector looks at
srcCandidates == <<"src", "lib", "app", "Sources", "source">>
testCandidates == <<"tests", "test", "__tests__", "spec", "Tests", "src/__tests__", "src/test">>
componentCandidates == <<"src/components", "components", "app/components", "src/ui", "Views">>
CandidatePaths == Range(srcCandidates) \cup Range(testCandidates) \cup Range(componentCandidates)

NoPackageJson == [kind |-> "absent", dependencies |-> <<>>, devDependencies |-> <<>>]
PackageJson(deps, devDeps) ==
    [kind |-> "json", dependencies |-> deps, devDependencies |-> devDeps]
NoComposer == [kind |-> "absent", require |-> {}]

EmptyDir ==
    [ packageJson |-> NoPackageJson, tsconfig |-> FALSE,
      packageSwift |-> NoFile, xcodeproj |-> FALSE, podfile |-> NoFile,
      pom |-> NoFile, gradle |-> NoFile, gradleKts |-> NoFile,
      csproj |-> NoFile, sln |-> FALSE,
      gemfile |-> NoFile,
      composer |-> NoComposer,
      requirements |-> NoFile, pyproject |-> FALSE, pytestIni |-> FALSE,
      conftest |-> FALSE, managePy |-> FALSE,
      goMod |-> NoFile, cargo |-> NoFile, mix |-> NoFile, sbt |-> NoFile,
      cmake |-> NoFile, makefile |-> FALSE, cppFile |-> FALSE,
      pubspec |-> NoFile,
      paths |-> [p \in CandidatePaths |-> "none"] ]

(***************************************************************************)
(* detectProjectContext: one operator per block, each taking the context   *)
(* built so far and returning the context after the block.                 *)
(***************************************************************************)
\* an if / else-if chain of <<names, tag>>: the tag of the first entry for which
\* Present holds of one of its names, Undefined when none matches
FirstMatch(chain, Present(_)) ==
    LET hits == {i \in DOMAIN chain : \E n \in chain[i][1] : Present(n)}
    IN  IF hits = {} THEN Undefined
        ELSE chain[CHOOSE i \in hits : \A j \in hits : i <= j][2]

\* context.key = value, when the chain matched
PutIf(context, key, value) ==
    IF value = Undefined THEN context ELSE Put(context, key, value)

\* the chain with react tested before next
jsFrameworksReactFirst ==
    << <<{"react"}, "react">>, <<{"next"}, "next.js">>,
       <<{"@remix-run/react", "remix"}, "remix">>,
       <<{"gatsby"}, "gatsby">>, <<{"nuxt"}, "nuxt">>,
       <<{"@angular/core"}, "angular">>, <<{"vue"}, "vue">>,
       <<{"svelte", "@sveltejs/kit"}, "svelte">>, <<{"solid-js"}, "solid">>,
       <<{"react-native"}, "react-native">>, <<{"expo"}, "expo">>,
       <<{"electron"}, "electron">>,
       <<{"nestjs", "@nestjs/core"}, "nestjs">>, <<{"hono"}, "hono">>,
       <<{"express"}, "express">>, <<{"fastify"}, "fastify">>,
       <<{"koa"}, "koa">> >>

jsFrameworks ==
    << <<{"next"}, "next.js">>, <<{"@remix-run/react", "remix"}, "remix">>,
       <<{"gatsby"}, "gatsby">>, <<{"nuxt"}, "nuxt">>,
       <<{"@angular/core"}, "angular">>, <<{"vue"}, "vue">>,
       <<{"svelte", "@sveltejs/kit"}, "svelte">>, <<{"solid-js"}, "solid">>,
       <<{"react-native"}, "react-native">>, <<{"expo"}, "expo">>,
       <<{"electron"}, "electron">>, <<{"react"}, "react">>,
       <<{"nestjs", "@nestjs/core"}, "nestjs">>, <<{"hono"}, "hono">>,
       <<{"express"}, "express">>, <<{"fastify"}, "fastify">>,
       <<{"koa"}, "koa">> >>

jsTestRunners ==
    << <<{"vitest"}, "vitest">>, <<{"jest"}, "jest">>, <<{"mocha"}, "mocha">>,
       <<{"ava"}, "ava">>, <<{"jasmine"}, "jasmine">> >>

\* dep.startsWith('@types/'), on the package names of the model
StartsWithTypes(dep) == dep \in {"@types/node", "@types/react"}

\* the merge with devDependencies spread first
AllDepsDevFirst(pkg) == SetOrder(pkg.devDependencies \o pkg.dependencies)

\* { ...pkg.dependencies, ...pkg.devDependencies }: the keys in insertion order
\* (every declared version is a non-empty string, so allDeps[name] is truthy
\* exactly for the keys)
AllDeps(pkg) == SetOrder(pkg.dependencies \o pkg.devDependencies)

\* the JavaScript block setting the language before it parses, as the PHP block does
JsBlockLanguageFirst(dir, context) ==
    IF ~existsSync(dir.packageJson) THEN context
    ELSE
    LET allDeps == AllDeps(dir.packageJson)
        has(name) == name \in Range(allDeps)
        c1 == Put(context, "language",
                  IF has("typescript") \/ dir.tsconfig THEN "typescript" ELSE "javascript")
        c2 == PutIf(c1, "framework", FirstMatch(jsFrameworks, has))
    IN  IF dir.packageJson.kind # "json" THEN c1
        ELSE PutIf(c2, "testRunner", FirstMatch(jsTestRunners, has))

\* the JavaScript block looking for the typescript dependency only
JsBlockDependencyOnly(dir, context) ==
    IF dir.packageJson.kind # "json" THEN context
    ELSE
    LET allDeps == AllDeps(dir.packageJson)
        has(name) == name \in Range(allDeps)
        c1 == Put(context, "language", IF has("typescript") THEN "typescript" ELSE "javascript")
        c2 == PutIf(c1, "framework", FirstMatch(jsFrameworks, has))
    IN  PutIf(c2, "testRunner", FirstMatch(jsTestRunners, has))

\* the JavaScript block with the test runner chain continuing the framework chain
JsBlockRunnerAfterFramework(dir, context) ==
    IF dir.packageJson.kind # "json" THEN context
    ELSE
    LET allDeps == AllDeps(dir.packageJson)
        has(name) == name \in Range(allDeps)
        c1 == Put(context, "language",
                  IF has("typescript") \/ dir.tsconfig THEN "typescript" ELSE "javascript")
        c2 == PutIf(c1, "framework", FirstMatch(jsFrameworks, has))
    IN  IF "framework" \in DOMAIN c2 THEN c2
        ELSE PutIf(c2, "testRunner", FirstMatch(jsTestRunners, has))

\* JavaScript / TypeScript (package.json)
JsBlock(dir, context) ==
    IF ~existsSync(dir.packageJson) THEN context
    ELSE IF dir.packageJson.kind # "json" THEN context   \* catch: ignored
    ELSE
    LET allDeps == AllDeps(dir.packageJson)
        has(name) == name \in Range(allDeps)
        c1 == Put(context, "language",
                  IF has("typescript") \/ dir.tsconfig THEN "typescript" ELSE "javascript")
        c2 == PutIf(c1, "framework", FirstMatch(jsFrameworks, has))
        c3 == PutIf(c2, "testRunner", FirstMatch(jsTestRunners, has))
        keep1(dep) == ~StartsWithTypes(dep)
        keep2(dep) == dep \notin {"typescript", "prettier", "eslint"}
        keep3(dep) == dep # Get(c3, "framework") /\ dep # Get(c3, "testRunner")
        notableDeps == Slice(Filter(Filter(Filter(allDeps, keep1), keep2), keep3), 5)
    IN  IF Len(notableDeps) > 0 THEN Put(c3, "dependencies", notableDeps) ELSE c3

\* Swift / iOS / macOS
SwiftMatches(dir) == existsSync(dir.packageSwift) \/ dir.xcodeproj

SwiftBlock(dir, context) ==
    IF ~SwiftMatches(dir) THEN context
    ELSE
    LET c1 == Put(Put(context, "language", "swift"), "testRunner", "xctest")
        packageSwift == dir.packageSwift.text
        c2 == IF ~existsSync(dir.packageSwift) THEN c1
              ELSE IF Includes(packageSwift, "SwiftUI") THEN Put(c1, "framework", "swiftui")
              ELSE IF Includes(packageSwift, "Vapor") THEN Put(c1, "framework", "vapor")
              ELSE c1
        \* depMatches is null when no .package(url: ...) is declared
        c3 == IF existsSync(dir.packageSwift) /\ dir.packageSwift.list # <<>>
              THEN Put(c2, "dependencies", Slice(dir.packageSwift.list, 5))
              ELSE c2
        podfile == LowerText(dir.podfile.text)
        c4 == IF existsSync(dir.podfile) /\ ~Truthy(Get(c3, "framework"))
                 /\ Includes(podfile, "rxswift")
              THEN Put(c3, "framework", "rxswift")
              ELSE c3
        pods == [i \in DOMAIN dir.podfile.list |-> toLowerCase(dir.podfile.list[i])]
    IN  IF existsSync(dir.podfile) /\ pods # <<>> /\ "dependencies" \notin DOMAIN c4
        THEN Put(c4, "dependencies", Slice(pods, 5))
        ELSE c4

\* Java (Maven / Gradle)
JvmMatches(dir) ==
    existsSync(dir.pom) \/ existsSync(dir.gradle) \/ existsSync(dir.gradleKts)

\* const gradleFile = fs.existsSync(gradleKtsPath) ? gradleKtsPath : gradlePath
GradleFile(dir) == IF existsSync(dir.gradleKts) THEN dir.gradleKts ELSE dir.gradle

\* the JVM block consulting the Gradle files before pom.xml
JvmBlockGradleFirst(dir, context) ==
    IF existsSync(dir.gradle) \/ existsSync(dir.gradleKts) THEN
        LET gradle == LowerText(GradleFile(dir).text)
        IN  IF Includes(gradle, "com.android") \/ Includes(gradle, "android {")
            THEN Put(Put(Put(context, "language", "kotlin"), "framework", "android"),
                     "testRunner", "android-test")
            ELSE IF existsSync(dir.gradleKts) \/ Includes(gradle, "kotlin")
            THEN LET c1 == Put(Put(context, "language", "kotlin"), "testRunner", "junit")
                 IN  IF Includes(gradle, "ktor") THEN Put(c1, "framework", "ktor")
                     ELSE IF Includes(gradle, "spring-boot")
                          THEN Put(c1, "framework", "spring-boot")
                     ELSE c1
            ELSE LET c1 == Put(Put(context, "language", "java"), "testRunner", "junit")
                 IN  IF Includes(gradle, "spring-boot")
                     THEN Put(c1, "framework", "spring-boot")
                     ELSE IF Includes(gradle, "spring") THEN Put(c1, "framework", "spring")
                     ELSE c1
    ELSE IF existsSync(dir.pom) THEN
        LET c1 == Put(Put(context, "language", "java"), "testRunner", "junit")
            pom == LowerText(dir.pom.text)
        IN  IF Includes(pom, "spring-boot") THEN Put(c1, "framework", "spring-boot")
            ELSE IF Includes(pom, "spring") THEN Put(c1, "framework", "spring")
            ELSE IF Includes(pom, "quarkus") THEN Put(c1, "framework", "quarkus")
            ELSE IF Includes(pom, "micronaut") THEN Put(c1, "framework", "micronaut")
            ELSE c1
    ELSE context

JvmBlock(dir, context) ==
    IF existsSync(dir.pom) THEN
        LET c1 == Put(Put(context, "language", "java"), "testRunner", "junit")
            pom == LowerText(dir.pom.text)
        IN  IF Includes(pom, "spring-boot") THEN Put(c1, "framework", "spring-boot")
            ELSE IF Includes(pom, "spring") THEN Put(c1, "framework", "spring")
            ELSE IF Includes(pom, "quarkus") THEN Put(c1, "framework", "quarkus")
            ELSE IF Includes(pom, "micronaut") THEN Put(c1, "framework", "micronaut")
            ELSE c1
    ELSE IF existsSync(dir.gradle) \/ existsSync(dir.gradleKts) THEN
        LET gradle == LowerText(GradleFile(dir).text)
        IN  IF Includes(gradle, "com.android") \/ Includes(gradle, "android {")
            THEN Put(Put(Put(context, "language", "kotlin"), "framework", "android"),
                     "testRunner", "android-test")
            ELSE IF existsSync(dir.gradleKts) \/ Includes(gradle, "kotlin")
            THEN LET c1 == Put(Put(context, "language", "kotlin"), "testRunner", "junit")
                 IN  IF Includes(gradle, "ktor") THEN Put(c1, "framework", "ktor")
                     ELSE IF Includes(gradle, "spring-boot")
                          THEN Put(c1, "framework", "spring-boot")
                     ELSE c1
            ELSE LET c1 == Put(Put(context, "language", "java"), "testRunner", "junit")
                 IN  IF Includes(gradle, "spring-boot")
                     THEN Put(c1, "framework", "spring-boot")
                     ELSE IF Includes(gradle, "spring") THEN Put(c1, "framework", "spring")
                     ELSE c1
    ELSE context

\* C# / .NET
DotnetMatches(dir) == existsSync(dir.csproj) \/ dir.sln

DotnetBlock(dir, context) ==
    IF ~DotnetMatches(dir) THEN context
    ELSE
    LET c1 == Put(Put(context, "language", "csharp"), "testRunner", "xunit")
        csproj == LowerText(dir.csproj.text)
        c2 == IF Includes(csproj, "microsoft.aspnetcore") \/ Includes(csproj, "web.sdk")
              THEN Put(c1, "framework", "asp.net-core")
              ELSE IF Includes(csproj, "maui") THEN Put(c1, "framework", "maui")
              ELSE IF Includes(csproj, "xamarin") THEN Put(c1, "framework", "xamarin")
              ELSE IF Includes(csproj, "wpf") THEN Put(c1, "framework", "wpf")
              ELSE IF Includes(csproj, "blazor") THEN Put(c1, "framework", "blazor")
              ELSE c1
    IN  IF dir.csproj.kind # "file" THEN c1   \* no .csproj, or catch: ignored
        ELSE IF Includes(csproj, "nunit") THEN Put(c2, "testRunner", "nunit")
        ELSE IF Includes(csproj, "mstest") THEN Put(c2, "testRunner", "mstest")
        ELSE c2

\* Ruby (Gemfile)
RubyBlock(dir, context) ==
    IF ~existsSync(dir.gemfile) THEN context
    ELSE
    LET c1 == Put(context, "language", "ruby")
        gemfile == LowerText(dir.gemfile.text)
        c2 == IF Includes(gemfile, "rails") THEN Put(c1, "framework", "rails")
              ELSE IF Includes(gemfile, "sinatra") THEN Put(c1, "framework", "sinatra")
              ELSE IF Includes(gemfile, "hanami") THEN Put(c1, "framework", "hanami")
              ELSE c1
    IN  IF Includes(gemfile, "rspec") THEN Put(c2, "testRunner", "rspec")
        ELSE IF Includes(gemfile, "minitest") THEN Put(c2, "testRunner", "minitest")
        ELSE c2

phpFrameworks ==
    << <<{"laravel/framework"}, "laravel">>, <<{"symfony/framework-bundle"}, "symfony">>,
       <<{"slim/slim"}, "slim">>, <<{"codeigniter4/framework"}, "codeigniter">> >>

phpTestRunners ==
    << <<{"phpunit/phpunit"}, "phpunit">>, <<{"pestphp/pest"}, "pest">> >>

\* PHP (composer.json); require holds the keys of require and require-dev
PhpBlock(dir, context) ==
    IF ~existsSync(dir.composer) THEN context
    ELSE
    LET c1 == Put(context, "language", "php")
        has(name) == name \in dir.composer.require
        c2 == PutIf(c1, "framework", FirstMatch(phpFrameworks, has))
    IN  IF dir.composer.kind # "json" THEN c1   \* catch: ignored
        ELSE PutIf(c2, "testRunner", FirstMatch(phpTestRunners, has))

\* Python (requirements.txt / pyproject.toml)
PythonMatches(dir) == existsSync(dir.requirements) \/ dir.pyproject

PythonBlock(dir, context) ==
    IF ~PythonMatches(dir) THEN context
    ELSE
    LET c1 == Put(context, "language", "python")
        c2 == IF dir.pytestIni \/ dir.conftest THEN Put(c1, "testRunner", "pytest") ELSE c1
        reqs == LowerText(dir.requirements.text)
        c3 == IF Includes(reqs, "fastapi") THEN Put(c2, "framework", "fastapi")
              ELSE IF Includes(reqs, "flask") THEN Put(c2, "framework", "flask")
              ELSE IF Includes(reqs, "tornado") THEN Put(c2, "framework", "tornado")
              ELSE IF Includes(reqs, "aiohttp") THEN Put(c2, "framework", "aiohttp")
              ELSE c2
    IN  IF dir.managePy THEN Put(c2, "framework", "django")
        ELSE IF existsSync(dir.requirements) THEN
            IF Includes(reqs, "pytest") /\ ~Truthy(Get(c3, "testRunner"))
            THEN Put(c3, "testRunner", "pytest")
            ELSE IF Includes(reqs, "unittest") /\ ~Truthy(Get(c3, "testRunner"))
            THEN Put(c3, "testRunner", "unittest")
            ELSE c3
        ELSE c2

\* Go (go.mod)
\* the Go block assigning a new object instead of setting fields
GoBlockFresh(dir, context) ==
    IF ~existsSync(dir.goMod) THEN context
    ELSE Put(Put(EmptyContext, "language", "go"), "testRunner", "go test")

GoBlock(dir, context) ==
    IF ~existsSync(dir.goMod) THEN context
    ELSE
    LET c1 == Put(Put(context, "language", "go"), "testRunner", "go test")
        goMod == LowerText(dir.goMod.text)
    IN  IF Includes(goMod, "gin-gonic/gin") THEN Put(c1, "framework", "gin")
        ELSE IF Includes(goMod, "labstack/echo") THEN Put(c1, "framework", "echo")
        ELSE IF Includes(goMod, "gofiber/fiber") THEN Put(c1, "framework", "fiber")
        ELSE IF Includes(goMod, "go-chi/chi") THEN Put(c1, "framework", "chi")
        ELSE c1

\* the Rust block leaving the test runner as it finds it
RustBlockKeepsRunner(dir, context) ==
    IF ~existsSync(dir.cargo) THEN context
    ELSE
    LET c1 == Put(context, "language", "rust")
        cargo == LowerText(dir.cargo.text)
    IN  IF Includes(cargo, "actix-web") THEN Put(c1, "framework", "actix-web")
        ELSE IF Includes(cargo, "rocket") THEN Put(c1, "framework", "rocket")
        ELSE IF Includes(cargo, "axum") THEN Put(c1, "framework", "axum")
        ELSE IF Includes(cargo, "warp") THEN Put(c1, "framework", "warp")
        ELSE IF Includes(cargo, "tauri") THEN Put(c1, "framework", "tauri")
        ELSE c1

\* Rust (Cargo.toml)
RustBlock(dir, context) ==
    IF ~existsSync(dir.cargo) THEN context
    ELSE
    LET c1 == Put(Put(context, "language", "rust"), "testRunner", "cargo test")
        cargo == LowerText(dir.cargo.text)
    IN  IF Includes(cargo, "actix-web") THEN Put(c1, "framework", "actix-web")
        ELSE IF Includes(cargo, "rocket") THEN Put(c1, "framework", "rocket")
        ELSE IF Includes(cargo, "axum") THEN Put(c1, "framework", "axum")
        ELSE IF Includes(cargo, "warp") THEN Put(c1, "framework", "warp")
        ELSE IF Includes(cargo, "tauri") THEN Put(c1, "framework", "tauri")
        ELSE c1

\* Elixir (mix.exs)
ElixirBlock(dir, context) ==
    IF ~existsSync(dir.mix) THEN context
    ELSE
    LET c1 == Put(Put(context, "language", "elixir"), "testRunner", "exunit")
    IN  IF Includes(LowerText(dir.mix.text), ":phoenix")
        THEN Put(c1, "framework", "phoenix")
        ELSE c1

\* Scala (build.sbt)
ScalaBlock(dir, context) ==
    IF ~existsSync(dir.sbt) THEN context
    ELSE
    LET c1 == Put(Put(context, "language", "scala"), "testRunner", "scalatest")
        sbt == LowerText(dir.sbt.text)
    IN  IF Includes(sbt, "play") THEN Put(c1, "framework", "play")
        ELSE IF Includes(sbt, "akka-http") THEN Put(c1, "framework", "akka-http")
        ELSE IF Includes(sbt, "http4s") THEN Put(c1, "framework", "http4s")
        ELSE c1

\* C/C++ (CMakeLists.txt / Makefile); cppFile is
\* findFileWithExtension(cwd, ['.cpp', '.cc', '.cxx', '.hpp'])
CppMatches(dir) == existsSync(dir.cmake) \/ dir.makefile

CppBlock(dir, context) ==
    IF ~CppMatches(dir) THEN context
    ELSE
    LET c1 == Put(context, "language", IF dir.cppFile THEN "cpp" ELSE "c")
        cmake == LowerText(dir.cmake.text)
        c2 == IF Includes(cmake, "gtest") \/ Includes(cmake, "googletest")
              THEN Put(c1, "testRunner", "gtest")
              ELSE IF Includes(cmake, "catch2") THEN Put(c1, "testRunner", "catch2")
              ELSE c1
    IN  IF ~existsSync(dir.cmake) THEN c1
        ELSE IF Includes(cmake, "qt") THEN Put(c2, "framework", "qt")
        ELSE c2

\* Dart / Flutter (pubspec.yaml)
DartBlock(dir, context) ==
    IF ~existsSync(dir.pubspec) THEN context
    ELSE
    LET c1 == Put(Put(context, "language", "dart"), "testRunner", "flutter test")
    IN  IF Includes(LowerText(dir.pubspec.text), "flutter:")
        THEN Put(c1, "framework", "flutter")
        ELSE c1

\* the scan accepting any existing path, directory or not
FirstDirectoryNoStat(dir, candidates) ==
    LET hits == {i \in DOMAIN candidates : dir.paths[candidates[i]] # "none"}
    IN  IF hits = {} THEN Undefined
        ELSE candidates[CHOOSE i \in hits : \A j \in hits : i <= j]

\* fs.existsSync(p) && fs.statSync(p).isDirectory(): the first candidate that is a
\* directory, Undefined when none is
FirstDirectory(dir, candidates) ==
    LET hits == {i \in DOMAIN candidates : dir.paths[candidates[i]] = "dir"}
    IN  IF hits = {} THEN Undefined
        ELSE candidates[CHOOSE i \in hits : \A j \in hits : i <= j]

\* Detect common directory structures
DirectoriesBlock(dir, context) ==
    LET source == FirstDirectory(dir, srcCandidates)
        tests == FirstDirectory(dir, testCandidates)
        components == FirstDirectory(dir, componentCandidates)
        directories ==
            (IF source = Undefined THEN <<>> ELSE << <<"source", source>> >>)
            \o (IF tests = Undefined THEN <<>> ELSE << <<"tests", tests>> >>)
            \o (IF components = Undefined THEN <<>> ELSE << <<"components", components>> >>)
    IN  IF Len(directories) > 0 THEN Put(context, "directories", directories) ELSE context

\* the blocks with the JavaScript block moved to the end
ecoOrderJsLast == <<"swift", "jvm", "dotnet", "ruby", "php", "python", "go", "rust",
                    "elixir", "scala", "cpp", "dart", "js">>

\* the blocks in the order in which detectProjectContext runs them
ecoOrder == <<"js", "swift", "jvm", "dotnet", "ruby", "php", "python", "go", "rust",
              "elixir", "scala", "cpp", "dart">>

\* the block of one ecosystem
RunBlock(eco, dir, context) ==
    CASE eco = "js" -> JsBlock(dir, context)
      [] eco = "swift" -> SwiftBlock(dir, context)
      [] eco = "jvm" -> JvmBlock(dir, context)
      [] eco = "dotnet" -> DotnetBlock(dir, context)
      [] eco = "ruby" -> RubyBlock(dir, context)
      [] eco = "php" -> PhpBlock(dir, context)
      [] eco = "python" -> PythonBlock(dir, context)
      [] eco = "go" -> GoBlock(dir, context)
      [] eco = "rust" -> RustBlock(dir, context)
      [] eco = "elixir" -> ElixirBlock(dir, context)
      [] eco = "scala" -> ScalaBlock(dir, context)
      [] eco = "cpp" -> CppBlock(dir, context)
      [] eco = "dart" -> DartBlock(dir, context)

\* const context = {} after the first n blocks of order
RECURSIVE AfterBlocks(_, _, _)
AfterBlocks(order, dir, n) ==
    IF n = 0 THEN EmptyContext
    ELSE RunBlock(order[n], dir, AfterBlocks(order, dir, n - 1))

detectProjectContext(dir) ==
    DirectoriesBlock(dir, AfterBlocks(ecoOrder, dir, Len(ecoOrder)))

\* a readFileSync outside any try block fails: detectProjectContext rejects
DetectThrows(dir) ==
    \/ dir.packageSwift.kind = "unreadable"
    \/ SwiftMatches(dir) /\ dir.podfile.kind = "unreadable"
    \/ dir.pom.kind = "unreadable"
    \/ ~existsSync(dir.pom) /\ GradleFile(dir).kind = "unreadable"
    \/ dir.gemfile.kind = "unreadable"
    \/ PythonMatches(dir) /\ ~dir.managePy /\ dir.requirements.kind = "unreadable"
    \/ dir.goMod.kind = "unreadable"
    \/ dir.cargo.kind = "unreadable"
    \/ dir.mix.kind = "unreadable"
    \/ dir.sbt.kind = "unreadable"
    \/ dir.cmake.kind = "unreadable"
    \/ dir.pubspec.kind = "unreadable"

(***************************************************************************)
(* formatContextForPrompt.  The string returned is modelled as the list of *)
(* its lines (lines.join('\n')), a line as <<label, items>> where items    *)
(* are the parts that join(', ') puts after the label.                     *)
(***************************************************************************)
\* Object.entries(directories).filter(([, v]) => v).map(([k, v]) => `${v}/`)
DirItems(directories) ==
    LET kept == SelectSeq(directories, LAMBDA e : Truthy(e[2]))
    IN  [i \in DOMAIN kept |-> <<kept[i][2], "/">>]

\* the formatter pushing the directories line whatever dirs is
formatContextForPromptAnyDirs(context) ==
    LET has(key) == key \in DOMAIN context
        scalar(key, label) ==
            IF Truthy(Get(context, key)) THEN << <<label, <<context[key]>> >> >> ELSE <<>>
    IN  << <<"Project Context:", <<>> >> >>
        \o scalar("language", "- Language: ")
        \o scalar("framework", "- Framework: ")
        \o scalar("testRunner", "- Test runner: ")
        \o (IF has("directories")
            THEN << <<"- Key directories: ", DirItems(context["directories"])>> >>
            ELSE <<>>)
        \o (IF has("dependencies") /\ Len(context["dependencies"]) > 0
            THEN << <<"- Notable deps: ", context["dependencies"]>> >>
            ELSE <<>>)

formatContextForPrompt(context) ==
    LET has(key) == key \in DOMAIN context
        scalar(key, label) ==
            IF Truthy(Get(context, key)) THEN << <<label, <<context[key]>> >> >> ELSE <<>>
        \* dirs is the empty string when no entry is left
        dirs == IF has("directories") THEN DirItems(context["directories"]) ELSE <<>>
    IN  << <<"Project Context:", <<>> >> >>
        \o scalar("language", "- Language: ")
        \o scalar("framework", "- Framework: ")
        \o scalar("testRunner", "- Test runner: ")
        \o (IF has("directories") /\ dirs # <<>>
            THEN << <<"- Key directories: ", dirs>> >>
            ELSE <<>>)
        \o (IF has("dependencies") /\ Len(context["dependencies"]) > 0
            THEN << <<"- Notable deps: ", context["dependencies"]>> >>
            ELSE <<>>)

(***************************************************************************)
(* The state file.  Its content is "absent", "garbage" (text that          *)
(* JSON.parse rejects) or "json": the members of the serialized object.    *)
(***************************************************************************)
NoStateFile == [kind |-> "absent", members |-> <<>>]
GarbageStateFile == [kind |-> "garbage", members |-> <<>>]

\* the keys of a context in the order in which the members are written
fieldOrder == <<"language", "framework", "testRunner", "dependencies", "directories">>

\* JSON.stringify(context, null, 2) + '\n': one <<key, value>> member per key set
Stringify(context) ==
    LET isSet(key) == key \in DOMAIN context
        keys == Filter(fieldOrder, isSet)
    IN  [i \in DOMAIN keys |-> <<keys[i], context[keys[i]]>>]

\* JSON.parse(content) of a serialized object
Parse(members) ==
    [key \in {members[i][1] : i \in DOMAIN members} |->
        members[CHOOSE i \in DOMAIN members : members[i][1] = key][2]]

\* ProjectContext | null
Null == [some |-> FALSE, context |-> EmptyContext]
Some(context) == [some |-> TRUE, context |-> context]

\* load returning null for an object without keys
loadProjectContextEmptyIsNull(file) ==
    IF file.kind = "json" /\ file.members # <<>> THEN Some(Parse(file.members)) ELSE Null

\* load whose catch returns an empty object
loadProjectContextCatchEmpty(file) ==
    IF file.kind = "absent" THEN Null
    ELSE IF file.kind = "json" THEN Some(Parse(file.members))
    ELSE Some(EmptyContext)

loadProjectContext(file) ==
    IF file.kind = "absent" THEN Null
    ELSE IF file.kind = "json" THEN Some(Parse(file.members))
    ELSE Null   \* catch

\* a save that writes the scalar fields only
saveProjectContextScalars(context) ==
    [kind |-> "json",
     members |-> SelectSeq(Stringify(context), LAMBDA m : m[1] \in Range(simpleFields))]

\* the state file after saveProjectContext(context)
saveProjectContext(context) == [kind |-> "json", members |-> Stringify(context)]

(***************************************************************************)
(* initCommand.  The command runs synchronously up to its confirm() call,  *)
(* where it waits for the user: InitRun is the part before the prompt,     *)
(* Answer and Interrupt are the two ways the prompt ends.                  *)
(***************************************************************************)
\* a run that ends without a prompt, printing msgs
EndRun(msgs) ==
    /\ pc' = "done"
    /\ output' = msgs
    /\ UNCHANGED <<asked, saved, stateFile>>

\* the update branch asking for confirmation whatever the change list holds
CheckForChangesAlwaysAsks(existing) ==
    IF DetectThrows(fs)
    THEN /\ EndRun(<<"checking", "error">>)
         /\ UNCHANGED <<detectedContext, changes>>
    ELSE /\ detectedContext' = detectProjectContext(fs)
         /\ changes' = compareContexts(existing, detectedContext')
         /\ pc' = "confirmUpdate"
         /\ output' = <<"checking", "updates">>
         /\ asked' = asked + 1
         /\ UNCHANGED <<saved, stateFile>>

\* lines 129-157: a config exists and --force is not given
CheckForChanges(existing) ==
    IF DetectThrows(fs)
    THEN /\ EndRun(<<"checking", "error">>)
         /\ UNCHANGED <<detectedContext, changes>>
    ELSE LET detected == detectProjectContext(fs)
             found == compareContexts(existing, detected)
         IN  /\ detectedContext' = detected
             /\ changes' = found
             /\ IF Len(found) = 0
                THEN EndRun(<<"checking", "up to date">>)
                ELSE /\ pc' = "confirmUpdate"
                     /\ output' = <<"checking", "updates">>
                     /\ asked' = asked + 1
                     /\ UNCHANGED <<saved, stateFile>>

\* the scan saving the profile before it asks whether to save it
ScanProjectSavesFirst ==
    IF DetectThrows(fs)
    THEN /\ EndRun(<<"scanning", "error">>)
         /\ UNCHANGED <<detectedContext, changes>>
    ELSE LET context == detectProjectContext(fs)
         IN  /\ detectedContext' = context
             /\ UNCHANGED changes
             /\ IF DOMAIN context = {}
                THEN EndRun(<<"scanning", "could not detect">>)
                ELSE /\ pc' = "confirmSave"
                     /\ output' = <<"scanning", "context">>
                     /\ asked' = asked + 1
                     /\ saved' = saved + 1
                     /\ stateFile' = saveProjectContext(context)

\* lines 159-174: no config, or --force
ScanProject ==
    IF DetectThrows(fs)
    THEN /\ EndRun(<<"scanning", "error">>)
         /\ UNCHANGED <<detectedContext, changes>>
    ELSE LET context == detectProjectContext(fs)
         IN  /\ detectedContext' = context
             /\ UNCHANGED changes
             /\ IF DOMAIN context = {}
                THEN EndRun(<<"scanning", "could not detect">>)
                ELSE /\ pc' = "confirmSave"
                     /\ output' = <<"scanning", "context">>
                     /\ asked' = asked + 1
                     /\ UNCHANGED <<saved, stateFile>>

\* initCommand(options) up to the first prompt
InitRun(optForce) ==
    /\ pc = "idle"
    /\ force' = optForce
    /\ before' = stateFile
    /\ LET loaded == loadProjectContext(stateFile)
       IN  /\ existingContext' = loaded
           /\ IF loaded.some /\ ~optForce
              THEN CheckForChanges(loaded.context)
              ELSE ScanProject
    /\ UNCHANGED <<formatVars, fs, edited, persisted>>

\* the prompt's answer ignored: the profile is saved either way
AnswerIgnored(yes) ==
    /\ pc \in {"confirmUpdate", "confirmSave"}
    /\ stateFile' = saveProjectContext(detectedContext)
    /\ saved' = saved + 1
    /\ output' = Append(output, IF yes THEN (IF pc = "confirmUpdate" THEN "updated" ELSE "created")
                                ELSE (IF pc = "confirmUpdate" THEN "unchanged" ELSE "not saved"))
    /\ pc' = "done"
    /\ UNCHANGED <<formatVars, fs, force, existingContext, detectedContext, changes, asked,
                   before, edited, persisted>>

\* a yes saving the detected profile merged over the stored one
AnswerMerged(yes) ==
    /\ pc \in {"confirmUpdate", "confirmSave"}
    /\ IF yes
       THEN /\ LET stored == existingContext.context
                   merged == [k \in DOMAIN stored \cup DOMAIN detectedContext |->
                                 IF k \in DOMAIN detectedContext THEN detectedContext[k]
                                 ELSE stored[k]]
               IN  stateFile' = saveProjectContext(merged)
            /\ saved' = saved + 1
            /\ output' = Append(output, IF pc = "confirmUpdate" THEN "updated" ELSE "created")
       ELSE /\ output' = Append(output, IF pc = "confirmUpdate" THEN "unchanged" ELSE "not saved")
            /\ UNCHANGED <<stateFile, saved>>
    /\ pc' = "done"
    /\ UNCHANGED <<formatVars, fs, force, existingContext, detectedContext, changes, asked,
                   before, edited, persisted>>

\* the user answers the prompt: lines 150-156 and 176-182
Answer(yes) ==
    /\ pc \in {"confirmUpdate", "confirmSave"}
    /\ IF yes
       THEN /\ stateFile' = saveProjectContext(detectedContext)
            /\ saved' = saved + 1
            /\ output' = Append(output, IF pc = "confirmUpdate" THEN "updated" ELSE "created")
       ELSE /\ output' = Append(output, IF pc = "confirmUpdate" THEN "unchanged" ELSE "not saved")
            /\ UNCHANGED <<stateFile, saved>>
    /\ pc' = "done"
    /\ UNCHANGED <<formatVars, fs, force, existingContext, detectedContext, changes, asked,
                   before, edited, persisted>>

\* the user leaves the prompt with Ctrl-C: confirm() rejects and the command ends
Interrupt ==
    /\ pc \in {"confirmUpdate", "confirmSave"}
    /\ pc' = "done"
    /\ output' = Append(output, "interrupted")
    /\ UNCHANGED <<formatVars, fs, stateFile, force, existingContext, detectedContext, changes,
                   asked, saved, before, edited, persisted>>

\* the process exits; the next command starts with fresh locals
Exit ==
    /\ pc = "done"
    /\ pc' = "idle"
    /\ force' = FALSE
    /\ existingContext' = Null
    /\ detectedContext' = EmptyContext
    /\ changes' = <<>>
    /\ asked' = 0
    /\ saved' = 0
    /\ output' = <<>>
    /\ before' = stateFile
    /\ edited' = FALSE
    /\ persisted' = (saved > 0)
    /\ UNCHANGED <<formatVars, fs, stateFile>>

(***************************************************************************)
(* Working directories the model starts from.                              *)
(***************************************************************************)
\* dir with the entries of part replacing its own
Overlay(dir, part) == [k \in DOMAIN dir |-> IF k \in DOMAIN part THEN part[k] ELSE dir[k]]

\* the entries of the working directory that each block reads
EcoFields(eco) ==
    CASE eco = "js" -> {"packageJson", "tsconfig"}
      [] eco = "swift" -> {"packageSwift", "xcodeproj", "podfile"}
      [] eco = "jvm" -> {"pom", "gradle", "gradleKts"}
      [] eco = "dotnet" -> {"csproj", "sln"}
      [] eco = "ruby" -> {"gemfile"}
      [] eco = "php" -> {"composer"}
      [] eco = "python" -> {"requirements", "pyproject", "pytestIni", "conftest", "managePy"}
      [] eco = "go" -> {"goMod"}
      [] eco = "rust" -> {"cargo"}
      [] eco = "elixir" -> {"mix"}
      [] eco = "scala" -> {"sbt"}
      [] eco = "cpp" -> {"cmake", "makefile", "cppFile"}
      [] eco = "dart" -> {"pubspec"}

\* the condition under which each block sets anything
Matches(eco, dir) ==
    CASE eco = "js" -> dir.packageJson.kind = "json"
      [] eco = "swift" -> SwiftMatches(dir)
      [] eco = "jvm" -> JvmMatches(dir)
      [] eco = "dotnet" -> DotnetMatches(dir)
      [] eco = "ruby" -> existsSync(dir.gemfile)
      [] eco = "php" -> existsSync(dir.composer)
      [] eco = "python" -> PythonMatches(dir)
      [] eco = "go" -> existsSync(dir.goMod)
      [] eco = "rust" -> existsSync(dir.cargo)
      [] eco = "elixir" -> existsSync(dir.mix)
      [] eco = "scala" -> existsSync(dir.sbt)
      [] eco = "cpp" -> CppMatches(dir)
      [] eco = "dart" -> existsSync(dir.pubspec)

\* manifests of one ecosystem
Fixtures(eco) ==
    CASE eco = "js" ->
            { [packageJson |-> PackageJson(<<"react", "axios">>, <<"jest">>)],
              [packageJson |-> PackageJson(<<"lodash">>, <<>>), tsconfig |-> TRUE],
              [packageJson |-> [kind |-> "malformed", dependencies |-> <<>>,
                                devDependencies |-> <<>>]] }
      [] eco = "swift" ->
            { [packageSwift |-> ListFile({"SwiftUI"}, <<"Alamofire.git">>)],
              [packageSwift |-> TextFile({})],
              [xcodeproj |-> TRUE, podfile |-> ListFile({"RxSwift"}, <<"RxSwift">>)] }
      [] eco = "jvm" ->
            { [pom |-> TextFile({"Spring-Boot"})],
              [pom |-> TextFile({})],
              [gradle |-> TextFile({"com.android.application"})],
              [gradleKts |-> TextFile({"ktor"})] }
      [] eco = "dotnet" ->
            { [csproj |-> TextFile({"Microsoft.AspNetCore", "NUnit"})],
              [sln |-> TRUE] }
      [] eco = "ruby" ->
            { [gemfile |-> TextFile({"rspec-rails"})], [gemfile |-> TextFile({})] }
      [] eco = "php" ->
            { [composer |-> [kind |-> "json",
                             require |-> {"laravel/framework", "phpunit/phpunit"}]],
              [composer |-> [kind |-> "json", require |-> {}]],
              [composer |-> [kind |-> "malformed", require |-> {}]] }
      [] eco = "python" ->
            { [requirements |-> TextFile({"Flask", "pytest"})],
              [requirements |-> TextFile({"unittest"})],
              [requirements |-> TextFile({}), managePy |-> TRUE, pytestIni |-> TRUE],
              [pyproject |-> TRUE] }
      [] eco = "go" ->
            { [goMod |-> TextFile({"gin-gonic/gin"})], [goMod |-> TextFile({})],
              [goMod |-> Unreadable] }
      [] eco = "rust" -> { [cargo |-> TextFile({"axum"})], [cargo |-> TextFile({})] }
      [] eco = "elixir" -> { [mix |-> TextFile({":phoenix"})], [mix |-> TextFile({})] }
      [] eco = "scala" ->
            { [sbt |-> TextFile({"com.typesafe.play"})], [sbt |-> TextFile({})] }
      [] eco = "cpp" ->
            { [cmake |-> TextFile({"gtest", "qt5"}), cppFile |-> TRUE],
              [cmake |-> TextFile({})],
              [makefile |-> TRUE] }
      [] eco = "dart" ->
            { [pubspec |-> TextFile({"flutter: sdk"})], [pubspec |-> TextFile({})] }

\* the working directories that hold manifests of at most n of the ecosystems
\* ecoOrder[i], ecoOrder[i + 1], ...
RECURSIVE DirsFrom(_, _)
DirsFrom(i, n) ==
    IF i > Len(ecoOrder) \/ n = 0 THEN {EmptyDir}
    ELSE DirsFrom(i + 1, n)
         \cup {Overlay(d, f) : d \in DirsFrom(i + 1, n - 1), f \in Fixtures(ecoOrder[i])}

\* which of the candidate paths are directories
PathSettings ==
    { [p \in CandidatePaths |-> "none"],
      [p \in CandidatePaths |-> IF p \in {"src", "lib"} THEN "dir" ELSE "none"],
      [p \in CandidatePaths |->
          IF p \in {"src", "test", "src/components", "src/ui"} THEN "dir"
          ELSE IF p \in {"tests", "lib"} THEN "file" ELSE "none"] }

\* the working directories that combine at most n ecosystems
PolyDirs(n) == {Overlay(d, [paths |-> ps]) : d \in DirsFrom(1, n), ps \in PathSettings}

\* the candidate paths that lie inside another candidate path
Parent(path) ==
    CASE path \in {"src/__tests__", "src/test", "src/components", "src/ui"} -> "src"
      [] path = "app/components" -> "app"
      [] OTHER -> Undefined

\* the settings of the candidate paths in which at most n paths exist, each as a
\* directory or as a regular file, a path existing only inside a directory
PathsWith(n) ==
    UNION { {[p \in CandidatePaths |-> IF p \in DOMAIN kind THEN kind[p] ELSE "none"] :
               kind \in {k \in [some -> {"dir", "file"}] :
                           \A p \in some : Parent(p) # Undefined =>
                               Parent(p) \in some /\ k[Parent(p)] = "dir"}} :
            some \in {S \in SUBSET CandidatePaths : Cardinality(S) <= n} }

\* working directories with such paths, without and with a package.json
PathDirs(n) ==
    {Overlay(d, [paths |-> ps]) :
        d \in {EmptyDir, Overlay(EmptyDir, [packageJson |-> PackageJson(<<"react">>, <<>>)])},
        ps \in PathsWith(n)}

\* the package names that generated manifests declare
JsNames ==
    UNION {jsFrameworks[i][1] : i \in DOMAIN jsFrameworks}
        \cup {jsTestRunners[i][2] : i \in DOMAIN jsTestRunners}
        \cup {"typescript", "lodash", "@types/node"}

\* the sequences of at most n distinct members of S
RECURSIVE DistinctSeqs(_, _)
DistinctSeqs(S, n) ==
    IF n = 0 THEN {<<>>}
    ELSE LET shorter == DistinctSeqs(S, n - 1)
             longest == {q \in shorter : Len(q) = n - 1}
         IN  shorter \cup {Append(qx[1], qx[2]) :
                             qx \in {y \in longest \X S : y[2] \notin Range(y[1])}}

\* a parseable package.json with at most n entries, split in every way between
\* dependencies and devDependencies, with and without tsconfig.json beside it;
\* and no package.json or a malformed one, with and without tsconfig.json
JsDirs(n) ==
    { Overlay(EmptyDir,
              [packageJson |-> PackageJson(SubSeq(q, 1, k), SubSeq(q, k + 1, Len(q))),
               tsconfig |-> ts]) :
        <<q, k, ts>> \in {y \in DistinctSeqs(JsNames, n) \X (0..n) \X BOOLEAN :
                            y[2] <= Len(y[1])} }
    \cup
    { Overlay(EmptyDir, [packageJson |-> pkg, tsconfig |-> ts]) :
        pkg \in {NoPackageJson,
                 [kind |-> "malformed", dependencies |-> <<>>, devDependencies |-> <<>>]},
        ts \in BOOLEAN }

\* the working directories of the init workflow
WorkDirs ==
    { EmptyDir,
      Overlay(EmptyDir, [packageJson |-> PackageJson(<<"react", "axios">>, <<"jest">>)]),
      Overlay(EmptyDir, [packageJson |-> PackageJson(<<"next", "react">>, <<"typescript">>),
                         paths |-> [p \in CandidatePaths |->
                                       IF p \in {"src", "tests"} THEN "dir" ELSE "none"]]),
      Overlay(EmptyDir, [goMod |-> TextFile({})]),
      Overlay(EmptyDir, [packageJson |-> PackageJson(<<"react", "axios">>, <<"jest">>),
                         goMod |-> TextFile({})]),
      Overlay(EmptyDir, [paths |-> [p \in CandidatePaths |->
                                       IF p = "src" THEN "dir" ELSE "none"]]),
      Overlay(EmptyDir, [pom |-> Unreadable]) }

\* the state files of the init workflow: none, a corrupt one, and those that an
\* earlier run saved in one of the working directories
StateFiles ==
    {NoStateFile, GarbageStateFile}
        \cup {saveProjectContext(detectProjectContext(d)) : d \in {w \in WorkDirs : ~DetectThrows(w)}}

(***************************************************************************)
(* Profiles handed to compareContexts.  An optional directories object or  *)
(* dependencies list is <<>> when absent and <<value>> when present.       *)
(***************************************************************************)
Context(language, framework, testRunner, dirs, deps) ==
    LET c1 == PutIf(PutIf(PutIf(EmptyContext, "language", language),
                          "framework", framework), "testRunner", testRunner)
        c2 == IF dirs = <<>> THEN c1 ELSE Put(c1, "directories", dirs[1])
    IN  IF deps = <<>> THEN c2 ELSE Put(c2, "dependencies", deps[1])

dirRoles == {"source", "tests", "components"}

\* directories objects: any roles in any order, each with one of two paths
DirObjects ==
    UNION { {[i \in DOMAIN q |-> <<q[i], path[q[i]]>>] : path \in [Range(q) -> {"src", "lib"}]} :
              q \in DistinctSeqs(dirRoles, Cardinality(dirRoles)) }

\* dependencies lists of at most n names, repetitions included
DepLists(n) == UNION {[1..k -> {"axios", "lodash", "zod"}] : k \in 0..n}

Optional(S) == {<<>>} \cup {<<x>> : x \in S}

FewDirs == Optional({<< <<"source", "src">> >>})
FewDeps == Optional({<<"axios">>})
FewScalars == {Undefined, "go"}

ScalarValues ==
    {Undefined, "javascript", "typescript"} \X {Undefined, "react", "next.js"}
        \X {Undefined, "jest", "vitest"}

(***************************************************************************)
(* formatCommand.  The command waits at its prompts (interactiveSetup, the *)
(* password prompt after an authentication error) and at the provider's    *)
(* answer; each action runs from one of these points to the next.          *)
(***************************************************************************)
Providers == {"openai", "anthropic", "google"}

\* API keys: one that the provider accepts, one that it rejects, a blank one
ApiKeyValues == {"sk-valid", "sk-revoked", "  "}

\* String.prototype.trim, on the strings the model types in
trim(text) == IF text = "  " THEN "" ELSE text

\* what generateText throws: an APICallError with a status code, another Error,
\* or a value that is no Error
ThrownByGenerateText ==
    {[class |-> "APICallError", statusCode |-> st, message |-> m] :
        st \in {400, 401, 403, 429, 503}, m \in {"", "Unauthorized", "Quota exceeded"}}
    \cup {[class |-> "Error", statusCode |-> 0, message |-> m] :
        m \in {"Incorrect API key provided", "fetch failed", "Request timed out",
               "Quota exceeded"}}
    \cup {[class |-> "none", statusCode |-> 0, message |-> ""]}

\* isAuthRelatedMessage, on the messages of ThrownByGenerateText
isAuthRelatedMessage(message) == message \in {"Unauthorized", "Incorrect API key provided"}

InvalidKeyMessage(prov) == "Invalid API key for " \o prov \o "."

getFriendlyErrorMessage(error, prov) ==
    LET auth == [message |-> InvalidKeyMessage(prov), isAuthError |-> TRUE]
        plain(m) == [message |-> m, isAuthError |-> FALSE]
        asError ==
            IF isAuthRelatedMessage(error.message) THEN auth
            ELSE IF error.message = "fetch failed"
                 THEN plain("Network error. Check your internet connection.")
            ELSE IF error.message = "Request timed out"
                 THEN plain("Request timed out. Try again.")
            ELSE plain(error.message)
    IN  IF error.class = "APICallError"
        THEN IF error.statusCode \in {401, 403} THEN auth
             ELSE IF error.message # "" /\ isAuthRelatedMessage(error.message) THEN auth
             ELSE IF error.statusCode = 429
                  THEN plain("Rate limited. Wait a moment and try again.")
             ELSE IF error.statusCode \in {500, 502, 503}
                  THEN plain(prov \o " service is temporarily unavailable. Try again later.")
             ELSE IF error.message # "" THEN plain(error.message)
             ELSE asError
        ELSE IF error.class = "Error" THEN asError
        ELSE plain("An unexpected error occurred.")

\* nothing thrown
NotThrown == [name |-> "none", message |-> ""]
ApiKeyError(message) == [name |-> "ApiKeyError", message |-> message]
Error(message) == [name |-> "Error", message |-> message]

\* what formatPrompt throws when generateText throws error
formatPromptCatch(error, prov) ==
    LET friendly == getFriendlyErrorMessage(error, prov)
    IN  IF friendly.isAuthError THEN ApiKeyError(friendly.message)
        ELSE Error(friendly.message)

\* what a formatPrompt call can do: return the text (the provider accepts the
\* key) or throw
formatPrompt(prov, key) ==
    IF prov \notin Providers THEN {Error("Unknown provider: " \o prov)}   \* getModel
    ELSE (IF key = "sk-valid" THEN {NotThrown} ELSE {})
         \cup {formatPromptCatch(error, prov) : error \in ThrownByGenerateText}

getStoredApiKey(prov) == Get(config.apiKeys, prov)

hasApiKey(prov) == Truthy(getStoredApiKey(prov)) \/ Truthy(Get(envKeys, prov))

getApiKey(prov) ==
    IF Truthy(getStoredApiKey(prov)) THEN getStoredApiKey(prov) ELSE Get(envKeys, prov)

\* the configuration after setApiKey(prov, key)
setApiKey(conf, prov, key) == [conf EXCEPT !.apiKeys = Put(conf.apiKeys, prov, key)]

\* the format command is not running
NoFormat ==
    /\ fpc = "idle"
    /\ provider = Undefined
    /\ apiKey = Undefined
    /\ config = [provider |-> "anthropic", apiKeys |-> EmptyContext]
    /\ envKeys = EmptyContext
    /\ calls = <<>>
    /\ thrown = NotThrown
    /\ fout = <<>>

\* process.exit(1) after printing message
Exit1(message) ==
    /\ fpc' = "exit1"
    /\ fout' = Append(fout, message)

\* lines 47-81: the prompt, the provider and the API key
FormatStart(userPrompt, optProvider, optApiKey) ==
    /\ fpc = "idle"
    /\ calls' = <<>>
    /\ thrown' = NotThrown
    /\ IF trim(userPrompt) = ""
       THEN /\ fpc' = "exit1"
            /\ fout' = <<"Error: Prompt cannot be empty">>
            /\ UNCHANGED <<provider, apiKey>>
       ELSE LET chosen == IF Truthy(optProvider) THEN optProvider ELSE config.provider
            IN  /\ provider' = chosen
                /\ fout' = <<>>
                /\ IF Truthy(optApiKey)
                   THEN apiKey' = optApiKey /\ fpc' = "loop"
                   ELSE IF chosen \notin Providers
                   THEN fpc' = "crashed" /\ UNCHANGED apiKey   \* PROVIDER_CONFIGS[provider].envVar
                   ELSE IF hasApiKey(chosen)
                   THEN apiKey' = getApiKey(chosen) /\ fpc' = "loop"
                   ELSE fpc' = "setup" /\ UNCHANGED apiKey
    /\ UNCHANGED <<initVars, config, envKeys>>

\* interactiveSetup: the provider selected and the key pasted
InteractiveSetup(selected, pasted) ==
    /\ fpc = "setup"
    /\ IF trim(pasted) = ""
       THEN /\ Exit1("Error: API key cannot be empty")
            /\ UNCHANGED <<provider, apiKey, config>>
       ELSE /\ config' = setApiKey([config EXCEPT !.provider = selected], selected, pasted)
            /\ provider' = selected
            /\ apiKey' = pasted
            /\ fout' = Append(fout, "API key saved")
            /\ fpc' = "loop"
    /\ UNCHANGED <<initVars, envKeys, calls, thrown>>

\* lines 84-131 up to the password prompt: one formatPrompt call and what
\* follows its return or its exception
CallFormatPrompt ==
    /\ fpc = "loop"
    /\ Len(calls) < MaxCalls
    /\ calls' = Append(calls, <<provider, apiKey>>)
    /\ \E result \in formatPrompt(provider, apiKey) :
          /\ thrown' = result
          /\ IF result = NotThrown
             THEN /\ fpc' = "done"
                  /\ \E copy \in {<<>>, <<"Copied to clipboard">>,
                                  <<"Could not copy to clipboard">>} :
                        fout' = Append(fout, "Formatted prompt:") \o copy
             ELSE IF result.name = "ApiKeyError"
             THEN /\ fpc' = "password"
                  /\ fout' = fout \o <<result.message, "Please enter a valid API key.">>
             ELSE Exit1("Error formatting prompt: " \o result.message)
    /\ UNCHANGED <<initVars, provider, apiKey, config, envKeys>>

\* the retry with the pasted key, the key not stored
EnterApiKeyNotStored(newApiKey) ==
    /\ fpc = "password"
    /\ IF trim(newApiKey) = ""
       THEN /\ Exit1("Error: API key cannot be empty")
            /\ UNCHANGED apiKey
       ELSE /\ apiKey' = newApiKey
            /\ fout' = Append(fout, "API key saved")
            /\ fpc' = "loop"
    /\ UNCHANGED <<initVars, provider, config, envKeys, calls, thrown>>

\* lines 113-126: the key pasted at the password prompt
EnterApiKey(newApiKey) ==
    /\ fpc = "password"
    /\ IF trim(newApiKey) = ""
       THEN /\ Exit1("Error: API key cannot be empty")
            /\ UNCHANGED <<apiKey, config>>
       ELSE /\ apiKey' = newApiKey
            /\ config' = setApiKey(config, provider, newApiKey)
            /\ fout' = Append(fout, "API key saved")
            /\ fpc' = "loop"
    /\ UNCHANGED <<initVars, provider, envKeys, calls, thrown>>

\* Ctrl-C at a prompt: the prompt rejects and the command ends
FormatInterrupt ==
    /\ fpc \in {"setup", "password"}
    /\ fpc' = "aborted"
    /\ UNCHANGED <<initVars, provider, apiKey, config, envKeys, calls, thrown, fout>>

\* the process has ended; the stored configuration stays
FormatExit ==
    /\ fpc \in {"done", "exit1", "aborted", "crashed"}
    /\ fpc' = "idle"
    /\ provider' = Undefined
    /\ apiKey' = Undefined
    /\ calls' = <<>>
    /\ thrown' = NotThrown
    /\ fout' = <<>>
    /\ UNCHANGED <<initVars, config, envKeys>>

(***************************************************************************)
(* SpecFormat: format commands run one after the other over a stored       *)
(* configuration and an environment.                                       *)
(***************************************************************************)
InitFormat ==
    /\ fpc = "idle"
    /\ provider = Undefined
    /\ apiKey = Undefined
    /\ \E prov \in {"anthropic", "google"}, stored \in {Undefined, "sk-valid", "sk-revoked"} :
          config = [provider |-> prov,
                    apiKeys |-> PutIf(EmptyContext, "anthropic", stored)]
    /\ envKeys \in {EmptyContext, Put(EmptyContext, "google", "sk-revoked")}
    /\ calls = <<>>
    /\ thrown = NotThrown
    /\ fout = <<>>
    /\ fs = EmptyDir
    /\ stateFile = NoStateFile
    /\ pc = "idle"
    /\ before = NoStateFile
    /\ force = FALSE
    /\ existingContext = Null
    /\ detectedContext = EmptyContext
    /\ changes = <<>>
    /\ asked = 0
    /\ saved = 0
    /\ output = <<>>
    /\ edited = FALSE
    /\ persisted = FALSE

NextFormat ==
    \/ \E userPrompt \in {"fix the login bug", "  "},
          optProvider \in {Undefined, "openai", "gemini"},
          optApiKey \in {Undefined} \cup ApiKeyValues :
          FormatStart(userPrompt, optProvider, optApiKey)
    \/ \E selected \in Providers, pasted \in ApiKeyValues : InteractiveSetup(selected, pasted)
    \/ CallFormatPrompt
    \/ \E newApiKey \in ApiKeyValues : EnterApiKey(newApiKey)
    \/ FormatInterrupt
    \/ FormatExit

SpecFormat == InitFormat /\ [][NextFormat]_vars

(***************************************************************************)
(* Spec: the init workflow over a working directory and its state file.    *)
(***************************************************************************)
FreshLocals ==
    /\ force = FALSE
    /\ existingContext = Null
    /\ detectedContext = EmptyContext
    /\ changes = <<>>
    /\ asked = 0
    /\ saved = 0
    /\ output = <<>>
    /\ edited = FALSE
    /\ persisted = FALSE
    /\ NoFormat

Init ==
    /\ fs \in WorkDirs
    /\ stateFile \in StateFiles
    /\ pc = "idle"
    /\ before = stateFile
    /\ FreshLocals

\* between two commands the user changes the working directory
EditWorkdir ==
    /\ pc = "idle"
    /\ fs' \in WorkDirs \ {fs}
    /\ edited' = TRUE
    /\ UNCHANGED persisted
    /\ UNCHANGED <<formatVars, stateFile, pc, force, existingContext, detectedContext, changes,
                   asked, saved, output, before>>

Next ==
    \/ \E optForce \in BOOLEAN : InitRun(optForce)
    \/ \E yes \in BOOLEAN : Answer(yes)
    \/ Interrupt
    \/ Exit
    \/ EditWorkdir

Spec == Init /\ [][Next]_vars

(***************************************************************************)
(* SpecJs and SpecPoly: detectProjectContext applied to generated working  *)
(* directories; SpecPoly runs it a second time, after an edit or not.      *)
(***************************************************************************)
DetectRun ==
    /\ pc = "detect"
    /\ IF DetectThrows(fs)
       THEN pc' = "threw" /\ UNCHANGED detectedContext
       ELSE pc' = "detected" /\ detectedContext' = detectProjectContext(fs)
    /\ UNCHANGED <<formatVars, fs, stateFile, force, existingContext, changes, asked, saved,
                   output, before, edited, persisted>>

\* what an edit between two detections adds to the working directory
Edits ==
    { [goMod |-> TextFile({"gin-gonic/gin"})],
      [paths |-> [p \in CandidatePaths |-> IF p = "app" THEN "dir" ELSE "none"]] }

EditDir ==
    /\ pc = "detected"
    /\ ~edited
    /\ \E part \in Edits : fs' = Overlay(fs, part) /\ fs' # fs
    /\ edited' = TRUE
    /\ UNCHANGED persisted
    /\ pc' = "edited"
    /\ UNCHANGED <<formatVars, stateFile, force, existingContext, detectedContext, changes,
                   asked, saved, output, before>>

\* compareContexts(first detection, second detection)
DetectAgain ==
    /\ pc \in {"detected", "edited"}
    /\ ~DetectThrows(fs)
    /\ existingContext' = Some(detectedContext)
    /\ detectedContext' = detectProjectContext(fs)
    /\ changes' = compareContexts(detectedContext, detectedContext')
    /\ pc' = "redetected"
    /\ UNCHANGED <<formatVars, fs, stateFile, force, asked, saved, output, before, edited,
                   persisted>>

InitDetect(dirs) ==
    /\ fs \in dirs
    /\ stateFile = NoStateFile
    /\ pc = "detect"
    /\ before = NoStateFile
    /\ FreshLocals

InitJs == InitDetect(JsDirs(MaxPkg))
SpecJs == InitJs /\ [][DetectRun]_vars

\* words written in a generated requirements.txt
PythonWords ==
    {"fastapi", "Flask", "tornado", "aiohttp", "pytest", "pytest-cov", "unittest", "requests"}

\* working directories of Python projects: requirements.txt absent or holding at
\* most n of the words, with every combination of pyproject.toml, pytest.ini,
\* conftest.py and manage.py beside it
PythonDirs(n) ==
    { Overlay(EmptyDir, [requirements |-> reqs, pyproject |-> flags[1], pytestIni |-> flags[2],
                         conftest |-> flags[3], managePy |-> flags[4]]) :
        reqs \in {NoFile} \cup {TextFile(ws) : ws \in {S \in SUBSET PythonWords :
                                                        Cardinality(S) <= n}},
        flags \in BOOLEAN \X BOOLEAN \X BOOLEAN \X BOOLEAN }

InitPython == InitDetect(PythonDirs(MaxWords))
SpecPython == InitPython /\ [][DetectRun]_vars

\* words written in a generated pom.xml and in a generated Gradle file
PomWords == {"Spring-Boot", "spring", "quarkus", "com.android.application"}
GradleWords ==
    {"spring-boot-starter-web", "spring", "kotlin", "org.jetbrains.kotlin.jvm",
     "com.android.application", "android {", "ktor"}

\* a file that is absent or holds at most n of the words
TextFiles(words, n) ==
    {NoFile} \cup {TextFile(ws) : ws \in {S \in SUBSET words : Cardinality(S) <= n}}

\* working directories of JVM projects: every combination of pom.xml,
\* build.gradle and build.gradle.kts
JvmDirs(n) ==
    { Overlay(EmptyDir, [pom |-> files[1], gradle |-> files[2], gradleKts |-> files[3]]) :
        files \in TextFiles(PomWords, n) \X TextFiles(GradleWords, n)
                    \X TextFiles(GradleWords, n) }

InitJvm == InitDetect(JvmDirs(MaxWords))
SpecJvm == InitJvm /\ [][DetectRun]_vars

InitDirs == InitDetect(PathDirs(MaxPaths))
SpecDirs == InitDirs /\ [][DetectRun]_vars

\* names that the notableDeps filters keep, in the order the manifests declare them
PlainNames ==
    <<"axios", "lodash", "zod", "chalk", "ora", "commander", "dotenv", "uuid", "yargs",
      "debug", "execa", "glob">>

\* names that one of the filters removes, or that a chain recognizes
OtherNames ==
    {"@types/node", "@types/react", "typescript", "prettier", "eslint", "react", "next",
     "jest", "vitest"}

\* packages declared in a generated Package.swift, as the pattern captures them
SwiftNames ==
    <<"Alamofire.git", "vapor.git", "swift-nio.git", "Kingfisher.git", "SnapKit.git",
      "swift-log.git", "Moya.git", "Nuke.git", "swift-argument-parser.git", "GRDB.swift.git",
      "swift-collections.git", "Lottie.git">>

\* pods declared in a generated Podfile, as written there
PodNames ==
    <<"Alamofire", "RxSwift", "snapkit", "kingfisher", "moya", "realm", "lottie-ios",
      "firebase", "sdwebimage", "swiftlint", "nuke", "charts">>

\* s with x inserted after its first i entries
InsertAt(s, i, x) == SubSeq(s, 1, i) \o x \o SubSeq(s, i + 1, Len(s))

\* package.json as the working directory holds it
WithPackage(names, split) ==
    Overlay(EmptyDir,
            [packageJson |-> PackageJson(SubSeq(names, 1, split),
                                         SubSeq(names, split + 1, Len(names)))])

\* SpecDeps: manifests that declare up to MaxListed dependencies.  A package.json
\* declares k plain names with at most two other names among them, split at any
\* point between dependencies and devDependencies, a name possibly declared in
\* both; Package.swift and Podfile declare up to MaxListed packages and pods,
\* beside a package.json or not.
InitDeps ==
    /\ \/ \E k \in 0..MaxListed, i \in 0..MaxListed, x \in Optional(OtherNames),
              y \in Optional({"jest", "@types/react", "axios"}), split \in 0..(MaxListed + 2) :
              /\ i <= k
              /\ split <= k + Len(x) + Len(y)
              /\ fs = WithPackage(InsertAt(SubSeq(PlainNames, 1, k), i, x) \o y, split)
       \/ \E a \in 0..MaxListed, b \in 0..MaxListed, hasSwift \in BOOLEAN, hasPod \in BOOLEAN,
              k \in {0, 1, MaxListed} :
              /\ ~hasSwift => a = 0
              /\ ~hasPod => b = 0
              /\ fs = Overlay(WithPackage(SubSeq(PlainNames, 1, k), k),
                              [packageSwift |->
                                  IF hasSwift
                                  THEN ListFile(Range(SubSeq(SwiftNames, 1, a)),
                                                SubSeq(SwiftNames, 1, a))
                                  ELSE NoFile,
                               xcodeproj |-> ~hasSwift,
                               podfile |->
                                  IF hasPod
                                  THEN ListFile(Range(SubSeq(PodNames, 1, b)),
                                                SubSeq(PodNames, 1, b))
                                  ELSE NoFile])
    /\ stateFile = NoStateFile
    /\ pc = "detect"
    /\ before = NoStateFile
    /\ FreshLocals

SpecDeps == InitDeps /\ [][DetectRun]_vars

InitPoly == InitDetect(PolyDirs(MaxEco))
NextPoly == DetectRun \/ EditDir \/ DetectAgain
SpecPoly == InitPoly /\ [][NextPoly]_vars

(***************************************************************************)
(* SpecCompare: compareContexts applied to generated pairs of profiles.    *)
(***************************************************************************)
\* the locals of a comparison of existing with detected
Compare(existing, detected) ==
    /\ existingContext = Some(existing)
    /\ detectedContext = detected

\* the pairs compared: one group of fields takes all its values and the two
\* other groups a few; dependencies lists have at most MaxDeps names
InitCompare ==
    /\ \/ \E s1 \in ScalarValues, s2 \in ScalarValues,
              d1 \in FewDirs, d2 \in FewDirs, p1 \in FewDeps, p2 \in FewDeps :
              Compare(Context(s1[1], s1[2], s1[3], d1, p1),
                      Context(s2[1], s2[2], s2[3], d2, p2))
       \/ \E l1 \in FewScalars, l2 \in FewScalars,
              d1 \in Optional(DirObjects), d2 \in Optional(DirObjects), p1 \in FewDeps :
              Compare(Context(l1, Undefined, Undefined, d1, p1),
                      Context(l2, Undefined, Undefined, d2, <<>>))
       \/ \E l1 \in FewScalars, l2 \in FewScalars, d1 \in FewDirs, d2 \in FewDirs,
              p1 \in Optional(DepLists(MaxDeps)), p2 \in Optional(DepLists(MaxDeps)) :
              Compare(Context(l1, Undefined, Undefined, d1, p1),
                      Context(l2, Undefined, Undefined, d2, p2))
    /\ fs = EmptyDir
    /\ stateFile = NoStateFile
    /\ pc = "compare"
    /\ before = NoStateFile
    /\ force = FALSE
    /\ changes = <<>>
    /\ asked = 0
    /\ saved = 0
    /\ output = <<>>
    /\ edited = FALSE
    /\ persisted = FALSE
    /\ NoFormat

CompareRun ==
    /\ pc = "compare"
    /\ changes' = compareContexts(existingContext.context, detectedContext)
    /\ pc' = "compared"
    /\ UNCHANGED <<formatVars, fs, stateFile, force, existingContext, detectedContext, asked, saved,
                   output, before, edited, persisted>>

SpecCompare == InitCompare /\ [][CompareRun]_vars

(***************************************************************************)
(* SpecStore: saveProjectContext of a profile over any state file, then    *)
(* loadProjectContext in the same working directory.                       *)
(***************************************************************************)
\* the profiles saved: every combination of scalar fields with every
\* dependencies list of at most MaxDeps names, and every directories object
InitStore ==
    /\ \/ \E s \in ScalarValues, d \in FewDirs, p \in Optional(DepLists(MaxDeps)) :
              detectedContext = Context(s[1], s[2], s[3], d, p)
       \/ \E l \in FewScalars, d \in Optional(DirObjects), p \in FewDeps :
              detectedContext = Context(l, Undefined, Undefined, d, p)
    /\ stateFile \in StateFiles
    /\ pc = "store"
    /\ existingContext = Null
    /\ fs = EmptyDir
    /\ before = stateFile
    /\ force = FALSE
    /\ changes = <<>>
    /\ asked = 0
    /\ saved = 0
    /\ output = <<>>
    /\ edited = FALSE
    /\ persisted = FALSE
    /\ NoFormat

\* saveProjectContext(context)
SaveRun ==
    /\ pc = "store"
    /\ stateFile' = saveProjectContext(detectedContext)
    /\ saved' = saved + 1
    /\ pc' = "stored"
    /\ UNCHANGED <<formatVars, fs, force, existingContext, detectedContext, changes, asked, output,
                   before, edited, persisted>>

\* loadProjectContext(), before or after the save
LoadRun ==
    /\ pc \in {"store", "stored"}
    /\ existingContext' = loadProjectContext(stateFile)
    /\ pc' = IF pc = "stored" THEN "reloaded" ELSE "loaded"
    /\ UNCHANGED <<formatVars, fs, stateFile, force, detectedContext, changes, asked, saved, output,
                   before, edited, persisted>>

NextStore == SaveRun \/ LoadRun

SpecStore == InitStore /\ [][NextStore]_vars

(***************************************************************************)
(* SpecPrompt: formatContextForPrompt applied to generated profiles, with  *)
(* fields absent, empty and set.                                           *)
(***************************************************************************)
\* a scalar field: absent, the empty string, or a tag
PromptScalars == {Undefined, "", "go"}

\* directories objects, the empty one and ones with an empty path included
PromptDirs ==
    Optional({ <<>>, << <<"source", "">> >>, << <<"source", "src">> >>,
               << <<"source", "src">>, <<"tests", "">> >>,
               << <<"tests", "tests">>, <<"source", "src">> >>,
               << <<"source", "">>, <<"components", "Views">> >> })

InitPrompt ==
    /\ \E l \in PromptScalars, f \in PromptScalars, t \in PromptScalars,
          d \in PromptDirs, p \in Optional(DepLists(MaxDeps)) :
          detectedContext = Context(l, f, t, d, p)
    /\ stateFile = NoStateFile
    /\ pc = "prompt"
    /\ existingContext = Null
    /\ fs = EmptyDir
    /\ before = NoStateFile
    /\ force = FALSE
    /\ changes = <<>>
    /\ asked = 0
    /\ saved = 0
    /\ output = <<>>
    /\ edited = FALSE
    /\ persisted = FALSE
    /\ NoFormat

\* formatContextForPrompt(context)
PromptRun ==
    /\ pc = "prompt"
    /\ output' = formatContextForPrompt(detectedContext)
    /\ pc' = "prompted"
    /\ UNCHANGED <<formatVars, fs, stateFile, force, existingContext, detectedContext, changes,
                   asked, saved, before, edited, persisted>>

SpecPrompt == InitPrompt /\ [][PromptRun]_vars

(***************************************************************************)
(* Properties.                                                             *)
(***************************************************************************)
Last(s) == IF s = <<>> THEN "" ELSE s[Len(s)]

InRun == pc \in {"confirmUpdate", "confirmSave", "done"}

\* C1: an init run with --force detects and persists the detected profile
\* unconditionally: it computes no diff, asks no confirmation, and once it has
\* ended the state file holds the profile it detected.
C1_ForcePersistsWithoutPrompt ==
    (InRun /\ force /\ ~DetectThrows(fs)) =>
        /\ asked = 0
        /\ changes = <<>>
        /\ pc = "done" => stateFile = saveProjectContext(detectedContext)

\* C2: without --force a run writes the state file only after the user answered
\* yes to the confirmation asked in that run, and a declined run (first run or
\* update) leaves the state file as it was when the run started.
C2_SaveOnlyOnYes ==
    (InRun /\ ~force) =>
        /\ saved > 0 => asked = 1 /\ Last(output) \in {"updated", "created"}
        /\ stateFile # before => saved > 0
        /\ Last(output) \in {"unchanged", "not saved"} => stateFile = before /\ saved = 0

\* a declined update: a stored profile, changes found, the user answered no
C2_Witness ==
    /\ pc = "done" /\ ~force
    /\ existingContext.some /\ changes # <<>>
    /\ Last(output) = "unchanged"
    /\ stateFile = before

\* the priority list of C3, as framework tags
C3_Priority ==
    <<"next.js", "remix", "gatsby", "nuxt", "angular", "vue", "svelte", "solid",
      "react-native", "expo", "electron", "react", "nestjs", "hono", "express",
      "fastify", "koa">>

\* the framework that a declared package stands for
C3_Tag(name) ==
    CASE name = "next" -> "next.js"
      [] name \in {"@remix-run/react", "remix"} -> "remix"
      [] name = "@angular/core" -> "angular"
      [] name \in {"svelte", "@sveltejs/kit"} -> "svelte"
      [] name = "solid-js" -> "solid"
      [] name \in {"nestjs", "@nestjs/core"} -> "nestjs"
      [] name \in {"gatsby", "nuxt", "vue", "react-native", "expo", "electron", "react",
                   "hono", "express", "fastify", "koa"} -> name
      [] OTHER -> Undefined

\* the names a package.json declares, in either section
Declared(pkg) == Range(pkg.dependencies) \cup Range(pkg.devDependencies)

C3_Expected(pkg) ==
    LET tags == {C3_Tag(n) : n \in Declared(pkg)}
        hits == {i \in DOMAIN C3_Priority : C3_Priority[i] \in tags}
    IN  IF hits = {} THEN Undefined
        ELSE C3_Priority[CHOOSE i \in hits : \A j \in hits : i <= j]

\* C3: for a parseable package.json the framework is the first entry of the
\* priority list that the merged dependencies and devDependencies contain,
\* whatever their order and section; with react and next it is next.js.
C3_FrameworkPriority ==
    (pc = "detected" /\ fs.packageJson.kind = "json") =>
        /\ Get(detectedContext, "framework") = C3_Expected(fs.packageJson)
        /\ {"react", "next"} \subseteq Declared(fs.packageJson)
              => Get(detectedContext, "framework") = "next.js"

\* react declared first, among the dependencies, and next among the devDependencies
C3_Witness ==
    /\ pc = "detected"
    /\ fs.packageJson.dependencies = <<"react">>
    /\ fs.packageJson.devDependencies = <<"next">>
    /\ Get(detectedContext, "framework") = "next.js"

\* the sequence of classifiers that C4 names
C4_Sequence == <<"js", "swift", "jvm", "dotnet", "ruby", "php", "python", "go", "rust",
                 "elixir", "scala", "cpp", "dart">>

Matching(dir) == {i \in DOMAIN C4_Sequence : Matches(C4_Sequence[i], dir)}

\* the classifier that runs last among those that matched
LastMatching(dir) ==
    C4_Sequence[CHOOSE i \in Matching(dir) : \A j \in Matching(dir) : j <= i]

\* dir with only the manifests of eco, and dir without them
Only(dir, eco) == Overlay(EmptyDir, [k \in EcoFields(eco) |-> dir[k]])
Without(dir, eco) == Overlay(dir, [k \in EcoFields(eco) |-> EmptyDir[k]])

\* C4 as stated: with manifests of two or more ecosystems, language, framework and
\* testRunner are exactly what the last matching classifier yields alone.
C4_LastClassifierProfile ==
    (pc = "detected" /\ Cardinality(Matching(fs)) >= 2) =>
        LET alone == detectProjectContext(Only(fs, LastMatching(fs)))
        IN  \A field \in Range(simpleFields) :
                Get(detectedContext, field) = Get(alone, field)

\* C4 as amended: language is exactly the last matching classifier's; framework
\* and testRunner are that classifier's when no earlier classifier set them, the
\* earlier value when the last classifier sets none, and one of the two otherwise.
C4_LastClassifierLanguage ==
    (pc = "detected" /\ Cardinality(Matching(fs)) >= 2) =>
        LET alone == detectProjectContext(Only(fs, LastMatching(fs)))
            earlier == detectProjectContext(Without(fs, LastMatching(fs)))
        IN  /\ Get(detectedContext, "language") = Get(alone, "language")
            /\ \A field \in {"framework", "testRunner"} :
                /\ Get(earlier, field) = Undefined
                      => Get(detectedContext, field) = Get(alone, field)
                /\ Get(alone, field) = Undefined
                      => Get(detectedContext, field) = Get(earlier, field)
                /\ Get(detectedContext, field) \in {Get(alone, field), Get(earlier, field)}

\* package.json and a Gemfile that names no framework: ruby, with the framework
\* and the test runner of package.json
C4_Witness ==
    /\ pc = "detected"
    /\ Matching(fs) = {1, 5}
    /\ Get(detectedContext, "language") = "ruby"
    /\ Get(detectedContext, "framework") = "react"
    /\ Get(detectedContext, "testRunner") = "jest"

\* C5: a field set by an earlier classifier keeps its value in the final profile
\* unless a later matching classifier itself sets that field.
C5_UntouchedFieldsKept ==
    pc = "detected" =>
        \A i \in DOMAIN ecoOrder :
            \A field \in {"language", "framework", "testRunner", "dependencies"} :
                LET sofar == AfterBlocks(ecoOrder, fs, i)
                    later == {j \in DOMAIN ecoOrder : j > i}
                IN  (/\ field \in DOMAIN sofar
                     /\ \A j \in later :
                           field \notin DOMAIN RunBlock(ecoOrder[j], fs, EmptyContext))
                    => /\ field \in DOMAIN detectedContext
                       /\ detectedContext[field] = sofar[field]

\* package.json with react, and a go.mod that names no known Go framework
C5_Witness ==
    /\ pc = "detected"
    /\ fs.goMod = TextFile({})
    /\ Get(detectedContext, "language") = "go"
    /\ Get(detectedContext, "framework") = "react"
    /\ DepsOf(detectedContext) = <<"axios">>

\* C6: two detections over an unchanged working directory return equal profiles,
\* and compareContexts of the two returns the empty list.
C6_Idempotence ==
    (pc = "redetected" /\ ~edited) =>
        /\ existingContext.context = detectedContext
        /\ changes = <<>>

\* a second detection of a profile with every kind of field set
C6_Witness ==
    /\ pc = "redetected" /\ ~edited
    /\ DOMAIN detectedContext =
          {"language", "framework", "testRunner", "dependencies", "directories"}
    /\ changes = <<>>

\* the records of a change list whose field is one of fields
RecordsOf(list, fields) == LET in(r) == r.field \in fields IN SelectSeq(list, in)

\* the record that the three-way comparison of C7 and C10 prescribes for a field
\* whose stored value is oldVal and whose detected value is newVal
ThreeWay(field, oldVal, newVal, suffix) ==
    IF oldVal = newVal THEN <<>>
    ELSE IF oldVal = Undefined
         THEN <<[field |-> field, type |-> "added", newValue |-> newVal \o suffix]>>
    ELSE IF newVal = Undefined
         THEN <<[field |-> field, type |-> "removed", oldValue |-> oldVal \o suffix]>>
    ELSE <<[field |-> field, type |-> "changed",
            oldValue |-> oldVal \o suffix, newValue |-> newVal \o suffix]>>

\* C7: for each of language, framework and testRunner, compareContexts emits
\* exactly one record when the stored and the detected value differ (added,
\* removed or changed, with the values that exist) and none when they are equal.
C7_SimpleFieldRecords ==
    pc = "compared" =>
        \A field \in Range(simpleFields) :
            RecordsOf(changes, {field})
                = ThreeWay(field, Get(existingContext.context, field),
                           Get(detectedContext, field), "")

\* the three kinds at once: language changed, framework added, testRunner removed
C7_Witness ==
    /\ pc = "compared"
    /\ RecordsOf(changes, Range(simpleFields))
          = << [field |-> "language", type |-> "changed",
                oldValue |-> "javascript", newValue |-> "typescript"],
               [field |-> "framework", type |-> "added", newValue |-> "react"],
               [field |-> "testRunner", type |-> "removed", oldValue |-> "jest"] >>

\* how many records of list are equal to r
Count(list, r) == Cardinality({i \in DOMAIN list : list[i] = r})

\* C8: dependencies are compared as sets: one added record per dependency only in
\* detected, one removed record per dependency only in stored, and no other
\* dependency record (none for a dependency in both, whatever the order).
C8_DependencySets ==
    pc = "compared" =>
        LET stored == Range(DepsOf(existingContext.context))
            detected == Range(DepsOf(detectedContext))
            records == RecordsOf(changes, {"dependency"})
        IN  /\ \A dep \in detected \ stored :
                  Count(records, [field |-> "dependency", type |-> "added",
                                  newValue |-> dep]) = 1
            /\ \A dep \in stored \ detected :
                  Count(records, [field |-> "dependency", type |-> "removed",
                                  oldValue |-> dep]) = 1
            /\ Len(records) = Cardinality(detected \ stored) + Cardinality(stored \ detected)

\* a name in both lists at different positions, one only stored, one only detected
C8_Witness ==
    /\ pc = "compared"
    /\ DepsOf(existingContext.context) = <<"axios", "lodash">>
    /\ DepsOf(detectedContext) = <<"lodash", "zod">>
    /\ RecordsOf(changes, {"dependency"})
          = << [field |-> "dependency", type |-> "added", newValue |-> "zod"],
               [field |-> "dependency", type |-> "removed", oldValue |-> "axios"] >>

\* the position of the first occurrence of x in s
FirstIndex(s, x) == CHOOSE i \in DOMAIN s : s[i] = x /\ \A j \in DOMAIN s : s[j] = x => i <= j

DirFields == {"directories." \o role : role \in dirRoles}

\* 1, 2, 3: the group of a record (scalar, directory, dependency)
Group(r) ==
    IF r.field \in Range(simpleFields) THEN 1 ELSE IF r.field \in DirFields THEN 2 ELSE 3

C10_DirectoryRecords ==
    pc = "compared" =>
        LET oldDirs == DirsOf(existingContext.context)
            newDirs == DirsOf(detectedContext)
            roles == Range(Keys(oldDirs)) \cup Range(Keys(newDirs))
        IN  /\ \A role \in roles :
                  RecordsOf(changes, {"directories." \o role})
                      = ThreeWay("directories." \o role, Lookup(oldDirs, role),
                                 Lookup(newDirs, role), "/")
            /\ \A i \in DOMAIN changes :
                  Group(changes[i]) = 2 =>
                      changes[i].field \in {"directories." \o role : role \in roles}

\* one role added, one removed and one changed
C10_Witness ==
    /\ pc = "compared"
    /\ {r.type : r \in Range(RecordsOf(changes, DirFields))} = {"added", "removed", "changed"}

\* C11: saveProjectContext(P) followed by loadProjectContext() in the same
\* working directory returns a profile equal to P, for every profile P, the empty
\* profile included, and whatever the state file held before.
C11_RoundTrip ==
    pc = "reloaded" =>
        /\ existingContext.some
        /\ existingContext.context = detectedContext

\* the empty profile saved over a corrupt state file and loaded again
C11_Witness ==
    /\ pc = "reloaded"
    /\ before = GarbageStateFile
    /\ detectedContext = EmptyContext
    /\ existingContext = Some(EmptyContext)

\* C12: loadProjectContext returns null for a missing state file and for one
\* whose content cannot be read or parsed, so an init run over a corrupt state
\* file takes the first-run path: it scans, computes no changes, and what it
\* saves it reports as created.
C12_CorruptIsAbsent ==
    /\ loadProjectContext(NoStateFile) = Null
    /\ loadProjectContext(GarbageStateFile) = Null
    /\ (InRun /\ before.kind # "json") =>
          /\ existingContext = Null
          /\ output[1] = "scanning"
          /\ changes = <<>>
          /\ Last(output) \notin {"up to date", "updates", "updated", "unchanged"}
          /\ saved > 0 => Last(output) = "created"

\* a run without --force over a corrupt state file, saved as a first run
C12_Witness ==
    /\ pc = "done" /\ ~force
    /\ before = GarbageStateFile
    /\ Last(output) = "created"
    /\ stateFile = saveProjectContext(detectedContext)

\* dir holds none of the manifest files that the blocks look for
NoManifest(dir) ==
    /\ ~existsSync(dir.packageJson)
    /\ ~existsSync(dir.composer)
    /\ \A i \in DOMAIN ecoOrder : ~Matches(ecoOrder[i], dir)

\* C13: detection over a working directory with none of the recognized manifest
\* files yields the empty profile, whatever else the directory contains.
C13_NoManifestEmptyProfile ==
    (pc = "detected" /\ NoManifest(fs)) => detectedContext = EmptyContext

\* the candidate list of each role, as C14 fixes it
C14_Candidates(role) ==
    CASE role = "source" -> <<"src", "lib", "app", "Sources", "source">>
      [] role = "tests" ->
            <<"tests", "test", "__tests__", "spec", "Tests", "src/__tests__", "src/test">>
      [] role = "components" ->
            <<"src/components", "components", "app/components", "src/ui", "Views">>

\* C14: for each role the detected directory is the first entry of the role's
\* candidate list that is a directory at detection time; the role is unset when
\* no candidate is a directory; a detected value is never a path that does not
\* exist or that is a regular file.
C14_FirstExistingDirectory ==
    pc = "detected" =>
        \A role \in dirRoles :
            LET candidates == C14_Candidates(role)
                value == Lookup(DirsOf(detectedContext), role)
            IN  IF \E i \in DOMAIN candidates : fs.paths[candidates[i]] = "dir"
                THEN \E i \in DOMAIN candidates :
                        /\ value = candidates[i]
                        /\ fs.paths[value] = "dir"
                        /\ \A j \in 1..(i - 1) : fs.paths[candidates[j]] # "dir"
                ELSE value = Undefined

\* src is a regular file and lib a directory: the source is lib
C14_Witness ==
    /\ pc = "detected"
    /\ fs.paths["src"] = "file"
    /\ fs.paths["lib"] = "dir"
    /\ DirsOf(detectedContext) = << <<"source", "lib">> >>

\* C15: in every profile that detectProjectContext returns, whatever the
\* combination of package.json, Package.swift and Podfile, the dependencies list
\* has at most 5 entries.
C15_AtMostFiveDependencies ==
    pc = "detected" => Len(DepsOf(detectedContext)) <= 5

\* a Package.swift that declares more than five packages, beside a package.json
\* that declares more than five names
C15_Witness ==
    /\ pc = "detected"
    /\ Len(fs.packageSwift.list) > 5
    /\ Len(fs.packageJson.dependencies) > 5
    /\ DepsOf(detectedContext) = SubSeq(SwiftNames, 1, 5)

\* the names of a package.json that C16 keeps, given the chosen framework and
\* test runner: declaration order, dependencies before devDependencies
C16_Eligible(pkg, framework, testRunner) ==
    LET keep(name) ==
            /\ name \notin {"@types/node", "@types/react"}
            /\ name \notin {"typescript", "prettier", "eslint"}
            /\ name # framework
            /\ name # testRunner
    IN  SelectSeq(SetOrder(pkg.dependencies \o pkg.devDependencies), keep)

With(dir, key, value) == [dir EXCEPT ![key] = value]

C18_NothingDetected ==
    (InRun /\ ~DetectThrows(fs) /\ detectedContext = EmptyContext) =>
        /\ output[2] = "could not detect"
        /\ pc = "done"
        /\ saved = 0
        /\ stateFile = before

\* what C19 requires of one step of the format command
C19_Step ==
    /\ fpc = "loop" =>
          \* the only step is a formatPrompt call with the current provider and key
          /\ calls' = Append(calls, <<provider, apiKey>>)
          /\ thrown'.name = "ApiKeyError" => fpc' = "password"
          /\ thrown'.name = "Error" => fpc' = "exit1" /\ config' = config
          /\ thrown' = NotThrown => fpc' = "done"
          /\ fpc' \in {"password", "exit1", "done"}
    /\ fpc = "password" =>
          /\ fpc' \in {"loop", "exit1", "aborted"}
          /\ calls' = calls
          /\ fpc' = "loop" =>
                /\ trim(apiKey') # ""
                /\ provider' = provider
                /\ config' = [config EXCEPT !.apiKeys = Put(config.apiKeys, provider, apiKey')]
          /\ fpc' # "loop" => config' = config /\ apiKey' = apiKey
    /\ fpc \in {"done", "exit1"} => fpc' = "idle" /\ calls' = <<>>

\* C19: when formatPrompt throws an ApiKeyError the command asks for a new key
\* and, given one, stores it for the current provider and calls formatPrompt
\* again with it; when formatPrompt throws another error the command reports it
\* and exits without another call; after the first call that returns, the
\* command makes no other call.
C19_RetryOnAuthError == [][C19_Step]_vars

\* a rejected key, a new key pasted and stored, and a second call that returned
C19_Witness ==
    /\ fpc = "done"
    /\ calls = << <<"anthropic", "sk-revoked">>, <<"anthropic", "sk-valid">> >>
    /\ config.apiKeys = Put(EmptyContext, "anthropic", "sk-valid")
    /\ thrown = NotThrown

\* C20: for a parseable package.json the language is typescript exactly when
\* typescript is among the merged dependencies or tsconfig.json exists, and
\* javascript otherwise; without a parseable package.json the JavaScript block
\* sets no language, even if tsconfig.json exists.
C20_JsLanguage ==
    pc = "detected" =>
        IF fs.packageJson.kind = "json"
        THEN Get(detectedContext, "language")
                = (IF "typescript" \in Declared(fs.packageJson) \/ fs.tsconfig
                   THEN "typescript" ELSE "javascript")
        ELSE "language" \notin DOMAIN JsBlock(fs, EmptyContext)
             /\ "language" \notin DOMAIN detectedContext

\* tsconfig.json beside a package.json that does not declare typescript
C20_Witness ==
    /\ pc = "detected"
    /\ fs.packageJson.kind = "json"
    /\ "typescript" \notin Declared(fs.packageJson)
    /\ fs.tsconfig
    /\ Get(detectedContext, "language") = "typescript"

\* tsconfig.json beside a package.json that does not parse: no language
C20_WitnessMalformed ==
    /\ pc = "detected"
    /\ fs.packageJson.kind = "malformed"
    /\ fs.tsconfig
    /\ detectedContext = EmptyContext

\* the labels of the lines in their fixed order
C21_Labels ==
    <<"- Language: ", "- Framework: ", "- Test runner: ", "- Key directories: ",
      "- Notable deps: ">>

\* what the line of a label shows when its field is present and not empty,
\* <<>> when the field is absent or empty
C21_Shown(context, label) ==
    LET scalar(key) == IF Truthy(Get(context, key)) THEN <<context[key]>> ELSE <<>>
    IN  CASE label = "- Language: " -> scalar("language")
          [] label = "- Framework: " -> scalar("framework")
          [] label = "- Test runner: " -> scalar("testRunner")
          [] label = "- Key directories: " ->
                IF "directories" \in DOMAIN context
                THEN LET d == context["directories"]
                         set == {i \in DOMAIN d : d[i][2] # ""}
                     IN  [i \in 1..Cardinality(set) |->
                            <<d[CHOOSE j \in set : Cardinality({k \in set : k <= j}) = i][2], "/">>]
                ELSE <<>>
          [] label = "- Notable deps: " ->
                IF "dependencies" \in DOMAIN context THEN context["dependencies"] ELSE <<>>

\* C21: formatContextForPrompt returns exactly the header line for the empty
\* profile; otherwise the header is followed by one line for each field that is
\* present and not empty, and by no other line, in the order Language,
\* Framework, Test runner, Key directories, Notable deps; an absent or empty
\* field produces no line.
C21_PromptLines ==
    pc = "prompted" =>
        /\ Len(output) >= 1 /\ output[1] = <<"Project Context:", <<>> >>
        /\ detectedContext = EmptyContext => Len(output) = 1
        /\ \A i \in 2..Len(output) : output[i][1] \in Range(C21_Labels)
        /\ \A i \in DOMAIN C21_Labels :
              LET at == {j \in DOMAIN output : output[j][1] = C21_Labels[i]}
                  shown == C21_Shown(detectedContext, C21_Labels[i])
              IN  /\ shown = <<>> => at = {}
                  /\ shown # <<>> =>
                        /\ Cardinality(at) = 1
                        /\ \A j \in at : output[j][2] = shown
        /\ \A i \in 2..Len(output), j \in 2..Len(output) :
              i < j => FirstIndex(C21_Labels, output[i][1]) < FirstIndex(C21_Labels, output[j][1])

\* a profile with an empty framework and a directories object whose only path
\* is empty: the header, the language line and the dependencies line
C21_Witness ==
    /\ pc = "prompted"
    /\ Get(detectedContext, "language") = "go"
    /\ Get(detectedContext, "framework") = ""
    /\ "directories" \in DOMAIN detectedContext
    /\ "dependencies" \in DOMAIN detectedContext
    /\ Len(output) = 3
    /\ output[2][1] = "- Language: "
    /\ output[3][1] = "- Notable deps: "

\* the profile that a state file holds, {} when it holds none
C22_Stored(file) == loadProjectContext(file).context

\* C22: after an init run that persisted (a confirmed first run, a confirmed
\* update, or a run with --force), the state file holds exactly the profile
\* detected in that run: whatever the file held before, a field of the earlier
\* profile that the detected profile lacks is gone, and the file is the one
\* that saving the detected profile alone produces.
C22_SaveReplaces ==
    (pc = "done" /\ saved > 0) =>
        /\ stateFile = saveProjectContext(detectedContext)
        /\ loadProjectContext(stateFile) = Some(detectedContext)
        /\ \A key \in DOMAIN C22_Stored(before) \ DOMAIN detectedContext :
              key \notin DOMAIN C22_Stored(stateFile)

\* a confirmed update in which the stored profile had a field that the detected
\* profile lacks
C22_Witness ==
    /\ pc = "done" /\ saved = 1 /\ ~force
    /\ Last(output) = "updated"
    /\ DOMAIN C22_Stored(before) \ DOMAIN detectedContext # {}
    /\ DOMAIN detectedContext # {}

\* a run without --force over a stored profile whose detection returned
C23_Compared ==
    /\ InRun /\ ~force /\ existingContext.some
    /\ Len(output) >= 2 /\ output[2] # "error"

\* C23: in an init run without --force over a stored profile, the change list
\* is compareContexts(stored, detected); when it is empty the run ends on the
\* up-to-date path, having asked no confirmation and written nothing; a
\* confirmation is asked exactly when the change list is not empty.
C23_UpToDatePath ==
    C23_Compared =>
        /\ changes = compareContexts(existingContext.context, detectProjectContext(fs))
        /\ changes = <<>> =>
              /\ pc = "done"
              /\ output = <<"checking", "up to date">>
              /\ asked = 0 /\ saved = 0
              /\ stateFile = before
        /\ asked = 1 <=> changes # <<>>
        /\ asked \in {0, 1}

\* a stored profile that equals the detected one: the run ended up to date
C23_Witness ==
    /\ C23_Compared
    /\ pc = "done"
    /\ changes = <<>>
    /\ DOMAIN detectedContext # {}
    /\ output = <<"checking", "up to date">>

\* one step of the init workflow, as C24 constrains it
C24_Step ==
    \* the part of a run before the prompt (load, detect, diff) writes nothing
    /\ pc = "idle" => stateFile' = stateFile /\ saved' = saved
    \* a write happens at most once in a run, and it ends the run
    /\ stateFile' # stateFile =>
          /\ pc \in {"confirmUpdate", "confirmSave"}
          /\ pc' = "done"
          /\ saved = 0 /\ saved' = 1
    /\ saved' # saved /\ pc # "done" => saved' = 1 /\ pc' = "done"
    \* nothing is written after the run has ended
    /\ pc = "done" => stateFile' = stateFile
    \* a run cancelled at the prompt leaves the file as it was when the run started
    /\ (pc' = "done" /\ Last(output') = "interrupted") =>
          stateFile' = before' /\ saved' = 0

\* C24: every init run writes the state file at most once, and that write is
\* the last state-changing step of the run: loading, detection, diffing and the
\* confirmation prompt never modify the state file, so that a run cancelled
\* before the save leaves the state file exactly as it was.
C24_SingleFinalWrite == [][C24_Step]_vars

\* a run over a stored profile cancelled at its confirmation prompt
C24_Witness ==
    /\ pc = "done"
    /\ Last(output) = "interrupted"
    /\ asked = 1
    /\ before.kind = "json"
    /\ detectedContext # C22_Stored(before)
    /\ stateFile = before

\* C25: detectProjectContext never aborts: for every working directory, one
\* with a manifest that cannot be read as a text file or is malformed included,
\* the call returns a profile and raises no error to its caller.
C25_DetectNeverAborts == pc # "threw"

\* the tag of the first keyword of chain that requirements.txt holds
C26_Keyword(dir, chain) ==
    LET reqs == LowerText(dir.requirements.text)
        hits == {i \in DOMAIN chain : Includes(reqs, chain[i])}
    IN  IF ~existsSync(dir.requirements) \/ hits = {} THEN Undefined
        ELSE chain[CHOOSE i \in hits : \A j \in hits : i <= j]

\* C26: in the Python classifier framework is django whenever manage.py exists
\* and otherwise the first of fastapi, flask, tornado, aiohttp found in
\* requirements.txt; testRunner is pytest whenever pytest.ini or conftest.py
\* exists and otherwise the first of pytest, unittest found in requirements.txt,
\* in every case, manage.py existing or not.
C26_PythonClassifier ==
    (pc = "detected" /\ PythonMatches(fs)) =>
        /\ Get(detectedContext, "language") = "python"
        /\ Get(detectedContext, "framework") =
              (IF fs.managePy THEN "django"
               ELSE C26_Keyword(fs, <<"fastapi", "flask", "tornado", "aiohttp">>))
        /\ Get(detectedContext, "testRunner") =
              (IF fs.pytestIni \/ fs.conftest THEN "pytest"
               ELSE C26_Keyword(fs, <<"pytest", "unittest">>))

\* language, framework and testRunner of a profile
C27_Triple(context) ==
    <<Get(context, "language"), Get(context, "framework"), Get(context, "testRunner")>>

\* the framework of a branch that knows spring-boot and spring
C27_Spring(text) ==
    IF Includes(text, "spring-boot") THEN "spring-boot"
    ELSE IF Includes(text, "spring") THEN "spring" ELSE Undefined

C28_Chain == <<"vitest", "jest", "mocha", "ava", "jasmine">>

\* the packages that the framework chain looks for
C28_FrameworkPackages == UNION {jsFrameworks[i][1] : i \in DOMAIN jsFrameworks}

\* the manifest without its framework packages
C28_WithoutFrameworks(pkg) ==
    PackageJson(SelectSeq(pkg.dependencies, LAMBDA d : d \notin C28_FrameworkPackages),
                SelectSeq(pkg.devDependencies, LAMBDA d : d \notin C28_FrameworkPackages))

\* C28: the JS test runner is the first of vitest, jest, mocha, ava, jasmine
\* present in the merged dependencies, whatever framework packages the
\* manifest holds: it is the one detected for the same manifest without them.
C28_TestRunnerIndependent ==
    (pc = "detected" /\ fs.packageJson.kind = "json") =>
        LET present == {i \in DOMAIN C28_Chain : C28_Chain[i] \in Declared(fs.packageJson)}
            stripped == Overlay(fs, [packageJson |-> C28_WithoutFrameworks(fs.packageJson)])
        IN  /\ Get(detectedContext, "testRunner") =
                  (IF present = {} THEN Undefined
                   ELSE C28_Chain[CHOOSE i \in present : \A j \in present : i <= j])
            /\ Get(detectedContext, "testRunner") =
                  Get(detectProjectContext(stripped), "testRunner")

\* a manifest with a framework package and mocha: both are detected
C28_Witness ==
    /\ pc = "detected"
    /\ fs.packageJson.kind = "json"
    /\ Declared(fs.packageJson) \cap C28_FrameworkPackages # {}
    /\ "framework" \in DOMAIN detectedContext
    /\ Get(detectedContext, "testRunner") = "mocha"

\* the test runner that a language fixes, Undefined for the other languages
C29_Runner(language) ==
    CASE language = "go" -> "go test"
      [] language = "rust" -> "cargo test"
      [] language = "elixir" -> "exunit"
      [] language = "scala" -> "scalatest"
      [] language = "dart" -> "flutter test"
      [] language = "swift" -> "xctest"
      [] OTHER -> Undefined

\* C29: in every detected profile, whatever manifests the working directory
\* combines, the language go, rust, elixir, scala, dart or swift comes with the
\* constant test runner of its ecosystem, and a profile with a framework or a
\* test runner has a language.
C29_LanguageFixesRunner ==
    LET language == Get(detectedContext, "language")
    IN  /\ C29_Runner(language) # Undefined =>
              Get(detectedContext, "testRunner") = C29_Runner(language)
        /\ ("framework" \in DOMAIN detectedContext \/ "testRunner" \in DOMAIN detectedContext)
              => "language" \in DOMAIN detectedContext

\* go.mod beside Cargo.toml: the Rust block ran last and replaced 'go test'
C29_Witness ==
    /\ pc = "detected"
    /\ existsSync(fs.goMod) /\ existsSync(fs.cargo)
    /\ Get(detectedContext, "language") = "rust"
    /\ Get(detectedContext, "testRunner") = "cargo test"

\* C30: after an init run that persisted the detected profile, the next init
\* run without --force over the unchanged working directory finds no change,
\* asks no confirmation and leaves the state file unchanged: comparing the
\* profile loaded back from the state file with a new detection gives no change.
C30_Convergence ==
    (InRun /\ ~force /\ persisted /\ ~edited) =>
        /\ existingContext = Some(detectProjectContext(fs))
        /\ compareContexts(loadProjectContext(before).context, detectProjectContext(fs)) = <<>>
        /\ changes = <<>>
        /\ pc = "done"
        /\ output = <<"checking", "up to date">>
        /\ asked = 0 /\ saved = 0
        /\ stateFile = before

\* the run after a run that saved a profile with directories and dependencies
C30_Witness ==
    /\ pc = "done" /\ ~force /\ persisted /\ ~edited
    /\ output = <<"checking", "up to date">>
    /\ {"language", "directories", "dependencies"} \subseteq DOMAIN detectedContext

====
